---- MODULE Spec2Model ----
(***************************************************************************)
(* Alert derivation of the crypto-trader application.                      *)
(*                                                                         *)
(* Two programs derive alerts from an indicator snapshot:                  *)
(*   - the per-symbol path of timeframes_module.js                         *)
(*     (generateAlertsForMultipleSymbols -> generateTechnicalAlerts ->     *)
(*      calculateAllIndicators), and                                       *)
(*   - the per-price-batch path of api.js (fetchAlerts).                   *)
(*                                                                         *)
(* Numbers are fixed-point integers: indicator values carry Scale units    *)
(* per 1.0 (the source rounds them with toFixed(2)), prices are in cents.  *)
(* Comparisons are those of real arithmetic on these values.  A JavaScript *)
(* value that may be absent is a record [k, v] with k one of "num",        *)
(* "null", "undefined"; the relational operators below follow the          *)
(* language: null converts to 0 and undefined to NaN, and every            *)
(* comparison with NaN is false.                                           *)
(*                                                                         *)
(* The candle series of a symbol is represented by what the indicator      *)
(* library makes of it: its length n and the last value each indicator     *)
(* yields on it.  Whether a value exists is decided by the length guards   *)
(* of the library functions, as in the source.                             *)
(***************************************************************************)
EXTENDS Integers, Sequences, FiniteSets, TLC

VARIABLES
    symbols,    \* the symbols of this run, in input order
    market,     \* symbol -> the data the providers return for it
    pc,         \* "idle", "batch" (awaiting Promise.all), "fetch", "done"
    path,       \* "none", "tech" or "fetch": which program runs
    i,          \* 1-based index: start of the current batch / loop position
    pending,    \* tech path: symbols of the batch still being computed
    analysis,   \* symbol -> indicator snapshot computed for it (or NoAnalysis)
    results,    \* tech path: symbol -> result of generateTechnicalAlerts
    allAlerts,  \* the accumulated { buy, sell, monitoring } lists
    call,       \* indicator library: the function called and its arguments
    ret,        \* indicator library: what the call returned (or NoReturn)
    uiPc,       \* page: "loading", "ready", "failed", "marking" (promise pending)
    api,        \* page: what cryptoAPI.fetchAlerts() hands back, "lists" or "promise"
    now,        \* page: Date.now()
    derived,    \* page: the alerts the API derives from the market, as <<type, symbol>>
    currentFilter,  \* page: appState.currentFilter
    cards,      \* page: the rendered cards, [id, category, unread]
    badges,     \* page: the unread counters of the three filter buttons
    clicked,    \* page: data-id of the card clicked last
    obtained,   \* page: the alerts obtained by the last call of fetchAlerts
    selectedAlert,  \* page: appState.selectedAlert
    visibility, \* page: document.visibilityState
    lastUpdate, \* page: appState.lastUpdate
    refreshing, \* page: a refreshData() is waiting for forceUpdatePrices
    ticking,    \* page: the interval callback is waiting for fetchCurrentPrices
    protocol,   \* api.js: window.location.protocol
    hasRSI,     \* api.js: typeof window.calculateRSI === 'function'
    priceCache, \* api.js: priceCache, [prices, lastUpdate]
    historicalDataCache,    \* api.js: per symbol, NoData or [source, n, timestamp]
    apiPc,      \* api.js: where the running call stands
    caller,     \* api.js: the exported function that was called
    queried,    \* api.js: the providers asked by the running call, with outcome
    currentPrices,  \* api.js: what fetchCurrentPrices returned, [source, symbols]
    idx,        \* api.js: position of fetchAlerts in currentPrices
    fetched     \* api.js: the alerts of fetchAlerts, with where their data came from

alertVars == <<symbols, market, pc, path, i, pending, analysis, results, allAlerts>>
libVars == <<call, ret>>
pauseVars == <<visibility, lastUpdate, refreshing, ticking>>
uiVars == <<uiPc, api, now, derived, currentFilter, cards, badges, clicked, obtained,
            selectedAlert, pauseVars>>
apiVars == <<protocol, hasRSI, priceCache, historicalDataCache, apiPc, caller, queried,
             currentPrices, idx, fetched>>
vars == <<alertVars, libVars, uiVars, apiVars>>
nonAlertVars == <<libVars, uiVars, apiVars>>
nonLibVars == <<alertVars, uiVars, apiVars>>
nonUiVars == <<alertVars, libVars, apiVars>>

-----------------------------------------------------------------------------
(* JavaScript values *)

Scale == 100

Num(n) == [k |-> "num", v |-> n]
NULL == [k |-> "null", v |-> 0]
UNDEFINED == [k |-> "undefined", v |-> 0]

IsNumber(x) == x.k = "num"
\* ToNumber(undefined) is NaN; ToNumber(null) is 0 (the v of NULL).
IsNaN(x) == x.k = "undefined"

\* a < b * num / den, a > b * num / den, ... as JavaScript evaluates them.
JsLT(a, b, num, den) == ~IsNaN(a) /\ ~IsNaN(b) /\ a.v * den < b.v * num
JsGT(a, b, num, den) == ~IsNaN(a) /\ ~IsNaN(b) /\ a.v * den > b.v * num
JsLE(a, b, num, den) == ~IsNaN(a) /\ ~IsNaN(b) /\ a.v * den <= b.v * num
JsGE(a, b, num, den) == ~IsNaN(a) /\ ~IsNaN(b) /\ a.v * den >= b.v * num

\* arr[0] of a JavaScript array: undefined when the array is empty.
First(arr) == IF Len(arr) > 0 THEN Num(arr[1]) ELSE UNDEFINED
\* arr[arr.length - 1]
Last(arr) == IF Len(arr) > 0 THEN Num(arr[Len(arr)]) ELSE UNDEFINED

-----------------------------------------------------------------------------
(* Program constants *)

RSI_PERIOD == 14        \* calculateRSI(prices, period = 14)
SMA_PERIOD == 20        \* calculateSMA(closes, 20)
EMA50_PERIOD == 50      \* calculateEMA(closes, 50)
EMA200_PERIOD == 200    \* calculateEMA(closes, 200)
MACD_SLOW == 26         \* calculateMACD slowPeriod
MACD_SIGNAL == 9        \* calculateMACD signalPeriod
BOLL_PERIOD == 20       \* calculateBollingerBands period
VOLUME_PERIOD == 14     \* analyzeVolume period
SR_LOOKBACK == 30       \* findSupportResistanceLevels lookback
ATR_PERIOD == 14        \* calculateATR period
ADX_PERIOD == 14        \* calculateADX period
PATTERN_MIN == 3        \* identifyCandlePatterns needs 3 candles
RECENT_CANDLES == 10    \* candles.slice(-10) kept in the snapshot
RECENT_PATTERNS == 3    \* patterns with position >= candles.length - 3
FETCH_MIN_CANDLES == 14 \* fetchAlerts skips series shorter than 14
batchSize == 5          \* generateAlertsForMultipleSymbols batch size

-----------------------------------------------------------------------------
(* Provider data.  A record d stands for the candle series of one symbol:  *)
(*   n       number of candles returned (0: no data)                       *)
(*   price   the current price: the last close in the per-symbol path, the *)
(*           price feed's value in the per-price-batch path (a run reads   *)
(*           only one of the two)                                          *)
(*   rsi, hist, lower, upper, vol, adx                                     *)
(*           the last value of the indicator on the series, where the      *)
(*           series is long enough for it to exist                         *)
(*   sup, res   the levels found by findSupportResistanceLevels            *)
(*   pats    the patterns found by identifyCandlePatterns                  *)

MaxSymbols == 6

SymbolList ==
    <<"BTC/USDT", "ETH/USDT", "SOL/USDT", "BNB/USDT",
      "AVAX/USDT", "LINK/USDT", "MATIC/USDT", "DOT/USDT">>

CandleCounts == {0, 10, 14, 20, 100}
Prices == {100, 20100}
RSIValues == {10 * Scale, 25 * Scale, 30 * Scale, 50 * Scale, 70 * Scale, 8550}
HistValues == {-50, 0, 50}
BollValues == {[lower |-> 20000, upper |-> 20300], [lower |-> 19000, upper |-> 21000]}
VolValues == {5 * Scale, 30 * Scale, 60 * Scale, 150 * Scale}
SupValues == {<<>>, <<20000>>, <<15000>>}
ResValues == {<<>>, <<20200>>, <<25000>>}
ADXValues == {15 * Scale, 30 * Scale}

\* Patterns a series of n candles may show near its end.
PatValues(n) ==
    {<<>>,
     <<[pattern |-> "Doji", position |-> n - 1, significance |-> "neutral"]>>,
     <<[pattern |-> "Martelo", position |-> n - 3, significance |-> "bullish"]>>,
     <<[pattern |-> "Estrela Cadente", position |-> n - 5, significance |-> "bearish"]>>}

\* The last STOP_CANDLES candles of a series whose last close is p, each with
\* 0 < low <= close <= high: flat ones, or uneven ones whose lowest low and
\* highest high are not those of the last candle.
STOP_CANDLES == 5       \* candles.slice(-5) behind the stop loss
Candle(low, close, high) == [low |-> low, close |-> close, high |-> high]
FlatTail(p) == [j \in 1..STOP_CANDLES |-> Candle(p, p, p)]
UnevenTail(p) ==
    <<Candle(p + 30, p + 40, p + 60), Candle(p - 40, p - 10, p - 5),
      Candle(p - 10, p + 20, p + 20), Candle(p + 5, p + 5, p + 50),
      Candle(p - 20, p, p + 10)>>
TailKinds(n) == IF n = 0 THEN {"none"} ELSE {"flat", "uneven"}
TailOf(kind, p) ==
    IF kind = "none" THEN <<>>
    ELSE IF kind = "flat" THEN FlatTail(p) ELSE UnevenTail(p)

\* A set of values where the series is long enough, one stand-in otherwise.
Where(cond, S, dflt) == IF cond THEN S ELSE {dflt}

DataSet(n, P, R, H, B, V, S, T, A, Q) ==
    {[n |-> n, price |-> p, rsi |-> r, hist |-> h,
      lower |-> b.lower, upper |-> b.upper, vol |-> v,
      sup |-> s, res |-> t, adx |-> a, pats |-> q, tail |-> TailOf(c, p)] :
        p \in P,
        c \in TailKinds(n),
        r \in Where(n >= RSI_PERIOD + 1, R, 0),
        h \in Where(n >= MACD_SLOW + MACD_SIGNAL, H, 0),
        b \in Where(n >= BOLL_PERIOD, B, [lower |-> 0, upper |-> 0]),
        v \in Where(n >= VOLUME_PERIOD, V, 0),
        s \in Where(n >= SR_LOOKBACK, S, <<>>),
        t \in Where(n >= SR_LOOKBACK, T, <<>>),
        a \in Where(n >= 2 * ADX_PERIOD, A, 0),
        q \in Where(n >= PATTERN_MIN,
                    {x \in Q : \A j \in 1..Len(x) : x[j].position >= 2},
                    <<>>)}

DataOfLength(n) ==
    DataSet(n, Prices, RSIValues, HistValues, BollValues, VolValues,
            SupValues, ResValues, ADXValues, PatValues(n))

-----------------------------------------------------------------------------
(* Indicator library: the last value of each indicator on a series d.  The *)
(* library returns null / an empty array when the series is too short, and *)
(* reading the last element of an empty array gives undefined.             *)

lastRSI(d) == IF d.n < RSI_PERIOD + 1 THEN NULL ELSE Num(d.rsi)
lastSMA(d, period) == IF d.n < period THEN UNDEFINED ELSE Num(d.price)
lastEMA(d, period) == IF d.n < period THEN UNDEFINED ELSE Num(d.price)
lastMACD(d) == IF d.n < MACD_SLOW + MACD_SIGNAL THEN UNDEFINED ELSE Num(d.hist)
lastBollinger(d) ==
    IF d.n < BOLL_PERIOD
    THEN [upper |-> UNDEFINED, lower |-> UNDEFINED]
    ELSE [upper |-> Num(d.upper), lower |-> Num(d.lower)]
analyzeVolume(d) == IF d.n < VOLUME_PERIOD THEN NULL ELSE Num(d.vol)
findSupportResistanceLevels(d) ==
    IF d.n < SR_LOOKBACK
    THEN [support |-> <<>>, resistance |-> <<>>]
    ELSE [support |-> d.sup, resistance |-> d.res]
lastATR(d) == IF d.n < ATR_PERIOD + 1 THEN UNDEFINED ELSE Num(d.price)
lastADX(d) == IF d.n < ADX_PERIOD * 2 THEN UNDEFINED ELSE Num(d.adx)
identifyCandlePatterns(d) == IF d.n < PATTERN_MIN THEN <<>> ELSE d.pats

Min(a, b) == IF a < b THEN a ELSE b

\* arr.filter(p => p.position >= from)
RECURSIVE FilterRecent(_, _)
FilterRecent(arr, from) ==
    IF arr = <<>> THEN <<>>
    ELSE (IF Head(arr).position >= from THEN <<Head(arr)>> ELSE <<>>)
         \o FilterRecent(Tail(arr), from)

-----------------------------------------------------------------------------
(* calculateAllIndicators: the snapshot of one symbol, or the error        *)
(* outcome.  The only fault raised inside the try block is the one for an  *)
(* empty series; every indicator function returns (possibly empty) rather  *)
(* than throwing on a short series.                                        *)

ErrorOutcome(symbol) ==
    [error |-> TRUE, symbol |-> symbol, lastPrice |-> UNDEFINED, candles |-> 0,
     lastCandles |-> <<>>,
     rsi |-> UNDEFINED, sma20 |-> UNDEFINED, ema50 |-> UNDEFINED,
     ema200 |-> UNDEFINED, macd |-> UNDEFINED,
     bollinger |-> [upper |-> UNDEFINED, lower |-> UNDEFINED],
     volumeChange |-> UNDEFINED, support |-> <<>>, resistance |-> <<>>,
     atr |-> UNDEFINED, adx |-> UNDEFINED, patterns |-> <<>>]

calculateAllIndicators(symbol, d) ==
    IF d.n = 0
    THEN ErrorOutcome(symbol)
    ELSE [error |-> FALSE, symbol |-> symbol,
          lastPrice |-> Num(d.price),
          candles |-> Min(d.n, RECENT_CANDLES),
          lastCandles |-> d.tail,
          rsi |-> lastRSI(d),
          sma20 |-> lastSMA(d, SMA_PERIOD),
          ema50 |-> lastEMA(d, EMA50_PERIOD),
          ema200 |-> lastEMA(d, EMA200_PERIOD),
          macd |-> lastMACD(d),
          bollinger |-> lastBollinger(d),
          volumeChange |-> analyzeVolume(d),
          support |-> findSupportResistanceLevels(d).support,
          resistance |-> findSupportResistanceLevels(d).resistance,
          atr |-> lastATR(d),
          adx |-> lastADX(d),
          patterns |-> FilterRecent(identifyCandlePatterns(d), d.n - RECENT_PATTERNS)]

-----------------------------------------------------------------------------
(* Alert rules shared by both paths (the two sources carry the same text). *)

Count(b) == IF b THEN 1 ELSE 0

\* rsi < 30 and rsi > 70, as the language compares a possibly absent rsi.
isOversold(rsi) == JsLT(rsi, Num(30 * Scale), 1, 1)
isOverbought(rsi) == JsGT(rsi, Num(70 * Scale), 1, 1)

\* macd.histogram > 0 || (macd.histogram < 0 && macd.histogram > macd.histogram - 1)
buyConfirmedByMACD(h) ==
    JsGT(h, Num(0), 1, 1)
    \/ (JsLT(h, Num(0), 1, 1) /\ JsGT(h, Num(h.v - 1 * Scale), 1, 1))
\* currentPrice <= bollinger.lower * 1.01
buyConfirmedByBollinger(price, bollinger) == JsLE(price, bollinger.lower, 101, 100)
\* macd.histogram < 0 || (macd.histogram > 0 && macd.histogram < macd.histogram - 1)
sellConfirmedByMACD(h) ==
    JsLT(h, Num(0), 1, 1)
    \/ (JsGT(h, Num(0), 1, 1) /\ JsLT(h, Num(h.v - 1 * Scale), 1, 1))
\* currentPrice >= bollinger.upper * 0.99
sellConfirmedByBollinger(price, bollinger) == JsGE(price, bollinger.upper, 99, 100)
\* volume.volumeChange > 20
confirmedByVolume(volumeChange) == JsGT(volumeChange, Num(20 * Scale), 1, 1)

\* Variant: HIGH only with all three confirmations.
finalConfidenceAllThree(confirmationCount) ==
    IF confirmationCount >= 3 THEN "HIGH"
    ELSE IF confirmationCount >= 1 THEN "MEDIUM" ELSE "LOW"

finalConfidence(confirmationCount) ==
    IF confirmationCount >= 2 THEN "HIGH"
    ELSE IF confirmationCount >= 1 THEN "MEDIUM" ELSE "LOW"

\* Price targets, as numerators over TargetDen:
\*   currentPrice * (1 + (30 - rsi) / 100) and currentPrice * (1 - (rsi - 70) / 100).
\* A null rsi enters the arithmetic as 0.
TargetDen == 100 * Scale
\* Variant: the oversold distance is subtracted instead of added.
buyTargetBelow(price, rsi) == Num(price.v * (100 * Scale - (30 * Scale - rsi.v)))
buyTarget(price, rsi) == Num(price.v * (100 * Scale + (30 * Scale - rsi.v)))
sellTarget(price, rsi) == Num(price.v * (100 * Scale - (rsi.v - 70 * Scale)))

\* Stop losses, as numerators over StopDen:
\*   Math.min(...candles.slice(-5).map(c => c.low)) * 0.99 and
\*   Math.max(...candles.slice(-5).map(c => c.high)) * 1.01.
StopDen == 100
minOf(S) == CHOOSE x \in S : \A y \in S : x <= y
maxOf(S) == CHOOSE x \in S : \A y \in S : x >= y
Lows(candles) == {candles[j].low : j \in 1..Len(candles)}
Highs(candles) == {candles[j].high : j \in 1..Len(candles)}
\* Variant: the stop loss of a BUY hangs on the highest of the lows.
buyStopLossFromHighestLow(candles) == Num(maxOf(Lows(candles)) * 99)
buyStopLoss(candles) == Num(minOf(Lows(candles)) * 99)
sellStopLoss(candles) == Num(maxOf(Highs(candles)) * 101)

macdLabel(h) == IF JsGT(h, Num(0), 1, 1) THEN "BULLISH" ELSE "BEARISH"
sellMacdLabel(h) == IF JsLT(h, Num(0), 1, 1) THEN "BEARISH" ELSE "BULLISH"

\* The clauses appended to the recommendation text.
Clauses(byMACD, byBollinger, byVolume) ==
    (IF byMACD THEN {"MACD"} ELSE {})
    \cup (IF byBollinger THEN {"Bollinger"} ELSE {})
    \cup (IF byVolume THEN {"Volume"} ELSE {})

buyAlert(symbol, price, rsi, h, bollinger, volumeChange, candles) ==
    LET byMACD == buyConfirmedByMACD(h)
        byBollinger == buyConfirmedByBollinger(price, bollinger)
        byVolume == confirmedByVolume(volumeChange)
        confirmationCount == Count(byMACD) + Count(byBollinger) + Count(byVolume)
    IN [type |-> "BUY", symbol |-> symbol, price |-> price,
        confidence |-> finalConfidence(confirmationCount),
        monitoring_type |-> "",
        rsi |-> rsi, macd |-> macdLabel(h),
        recommendation |-> Clauses(byMACD, byBollinger, byVolume),
        stopLoss |-> buyStopLoss(candles),
        target |-> buyTarget(price, rsi)]

sellAlert(symbol, price, rsi, h, bollinger, volumeChange, candles) ==
    LET byMACD == sellConfirmedByMACD(h)
        byBollinger == sellConfirmedByBollinger(price, bollinger)
        byVolume == confirmedByVolume(volumeChange)
        confirmationCount == Count(byMACD) + Count(byBollinger) + Count(byVolume)
    IN [type |-> "SELL", symbol |-> symbol, price |-> price,
        confidence |-> finalConfidence(confirmationCount),
        monitoring_type |-> "",
        rsi |-> rsi, macd |-> sellMacdLabel(h),
        recommendation |-> Clauses(byMACD, byBollinger, byVolume),
        stopLoss |-> sellStopLoss(candles),
        target |-> sellTarget(price, rsi)]

monitoringAlert(symbol, price, rsi, h, monitoringType, confidence) ==
    [type |-> "MONITORING", symbol |-> symbol, price |-> price,
     confidence |-> confidence,
     monitoring_type |-> monitoringType,
     rsi |-> rsi, macd |-> macdLabel(h),
     recommendation |-> {},
     target |-> UNDEFINED]

EmptyAlerts == [buy |-> <<>>, sell |-> <<>>, monitoring |-> <<>>]

\* [x] when cond, [] otherwise.
PushIf(cond, x) == IF cond THEN <<x>> ELSE <<>>

-----------------------------------------------------------------------------
(* generateTechnicalAlerts (timeframes_module.js) *)

includesStrongly(significance) ==
    significance \in {"strongly bullish", "strongly bearish"}

\* patterns.find(p => p.significance.includes('strongly')
\*                    || patterns[0].position >= analysis.candles.length - 2)
\* as the index of the pattern found, 0 when none is.
significantPattern(patterns, candles) ==
    LET hit == {j \in 1..Len(patterns) :
                   includesStrongly(patterns[j].significance)
                   \/ patterns[1].position >= candles - 2}
    IN IF hit = {} THEN 0 ELSE CHOOSE j \in hit : \A m \in hit : j <= m

nearSupport(price, support) == JsLE(price, First(support), 102, 100)
nearResistance(price, resistance) == JsGE(price, First(resistance), 98, 100)
\* Variants: the thresholds of the other path / a lower trend threshold.
atypicalVolumeAbove50(volumeChange) == JsGT(volumeChange, Num(50 * Scale), 1, 1)
strongTrendAbove10(adx) == JsGT(adx, Num(10 * Scale), 1, 1)
atypicalVolume(volumeChange) == JsGT(volumeChange, Num(100 * Scale), 1, 1)
strongTrend(adx) == JsGT(adx, Num(25 * Scale), 1, 1)

technicalMonitoring(symbol, a) ==
    LET price == a.lastPrice
        sp == significantPattern(a.patterns, a.candles)
    IN PushIf(nearSupport(price, a.support),
              monitoringAlert(symbol, price, a.rsi, a.macd, "Proximo ao Suporte", "MEDIUM"))
       \o PushIf(nearResistance(price, a.resistance),
              monitoringAlert(symbol, price, a.rsi, a.macd, "Proximo a Resistencia", "MEDIUM"))
       \o PushIf(atypicalVolume(a.volumeChange),
              monitoringAlert(symbol, price, a.rsi, a.macd, "Volume Atipico", "MEDIUM"))
       \o PushIf(Len(a.patterns) > 0 /\ sp # 0,
              monitoringAlert(symbol, price, a.rsi, a.macd, "Padrao Grafico",
                  IF sp # 0 /\ includesStrongly(a.patterns[sp].significance)
                  THEN "HIGH" ELSE "MEDIUM"))
       \o PushIf(strongTrend(a.adx),
              monitoringAlert(symbol, price, a.rsi, a.macd, "Tendencia Forte",
                  IF JsGT(a.adx, Num(35 * Scale), 1, 1) THEN "HIGH" ELSE "MEDIUM"))

generateTechnicalAlerts(symbol, a) ==
    IF a.error
    THEN EmptyAlerts    \* throw new Error(analysis.error), caught below
    ELSE [buy |-> PushIf(isOversold(a.rsi),
                     buyAlert(symbol, a.lastPrice, a.rsi, a.macd, a.bollinger, a.volumeChange,
                              a.lastCandles)),
          sell |-> PushIf(isOverbought(a.rsi),
                     sellAlert(symbol, a.lastPrice, a.rsi, a.macd, a.bollinger, a.volumeChange,
                               a.lastCandles)),
          monitoring |-> technicalMonitoring(symbol, a)]

-----------------------------------------------------------------------------
(* fetchAlerts (api.js): the body of the loop over the price list.         *)

\* The indicator values the loop body computes for a series of >= 14 candles.
fetchIndicators(symbol, d) ==
    [error |-> FALSE, symbol |-> symbol,
     lastPrice |-> Num(d.price),       \* currentPrice = priceData.price
     candles |-> d.n,
     lastCandles |-> d.tail,           \* lows.slice(-5), highs.slice(-5)
     rsi |-> lastRSI(d),
     sma20 |-> UNDEFINED, ema50 |-> UNDEFINED, ema200 |-> UNDEFINED,
     macd |-> lastMACD(d),
     bollinger |-> lastBollinger(d),
     volumeChange |-> analyzeVolume(d),
     support |-> findSupportResistanceLevels(d).support,
     resistance |-> findSupportResistanceLevels(d).resistance,
     atr |-> lastATR(d),
     adx |-> lastADX(d),
     patterns |-> <<>>]

\* distanceToSupport = (currentPrice - closestSupport) / currentPrice * 100,
\* distanceToSupport >= 0 && distanceToSupport < 3   (currentPrice > 0)
fetchNearSupport(price, support) ==
    /\ Len(support) > 0
    /\ price.v - support[1] >= 0
    /\ (price.v - support[1]) * 100 < 3 * price.v
\* distanceToResistance = (closestResistance - currentPrice) / currentPrice * 100
fetchNearResistance(price, resistance) ==
    /\ Len(resistance) > 0
    /\ resistance[1] - price.v >= 0
    /\ (resistance[1] - price.v) * 100 < 3 * price.v
fetchAtypicalVolume(volumeChange) == JsGT(volumeChange, Num(50 * Scale), 1, 1)

\* The monitoring type chosen by the if / if (!monitoringType ...) chain,
\* "" standing for null.
fetchMonitoringType(a) ==
    IF fetchNearSupport(a.lastPrice, a.support) THEN "Proximo ao Suporte"
    ELSE IF fetchNearResistance(a.lastPrice, a.resistance) THEN "Proximo a Resistencia"
    ELSE IF fetchAtypicalVolume(a.volumeChange) THEN "Volume Atipico"
    ELSE IF strongTrend(a.adx) THEN "Tendencia Forte"
    ELSE ""

fetchMonitoring(symbol, a) ==
    IF Len(a.support) > 0 \/ Len(a.resistance) > 0
    THEN PushIf(fetchMonitoringType(a) # "",
                monitoringAlert(symbol, a.lastPrice, a.rsi, a.macd,
                                fetchMonitoringType(a), "MEDIUM"))
    ELSE <<>>

\* The alerts one pass of the loop body pushes for a symbol.
fetchSymbolAlerts(symbol, d) ==
    IF d.n < FETCH_MIN_CANDLES
    THEN EmptyAlerts    \* continue
    ELSE LET a == fetchIndicators(symbol, d)
         IN [buy |-> PushIf(isOversold(a.rsi),
                        buyAlert(symbol, a.lastPrice, a.rsi, a.macd, a.bollinger, a.volumeChange,
                              a.lastCandles)),
             sell |-> PushIf(isOverbought(a.rsi),
                        sellAlert(symbol, a.lastPrice, a.rsi, a.macd, a.bollinger, a.volumeChange,
                               a.lastCandles)),
             monitoring |-> fetchMonitoring(symbol, a)]

-----------------------------------------------------------------------------
(* Alert ids: `${kind}-${baseSymbol}-${now.getTime()}`, written in every   *)
(* push.  An id is the triple of its parts.                                *)

\* symbol.split('/')[0]
PairOf ==
    [s \in {"BTC/USDT", "BTC/BRL", "BTC/EUR"} |-> "BTC"]
    @@ [s \in {"ETH/USDT"} |-> "ETH"] @@ [s \in {"SOL/USDT"} |-> "SOL"]
    @@ [s \in {"BNB/USDT"} |-> "BNB"] @@ [s \in {"AVAX/USDT"} |-> "AVAX"]
    @@ [s \in {"LINK/USDT"} |-> "LINK"] @@ [s \in {"MATIC/USDT"} |-> "MATIC"]
    @@ [s \in {"DOT/USDT"} |-> "DOT"]
baseSymbol(symbol) == PairOf[symbol]

\* The first part of the id: generateTechnicalAlerts names the kind of
\* monitoring, fetchAlerts does not.
idKind(a, program) ==
    IF a.type = "BUY" THEN "buy"
    ELSE IF a.type = "SELL" THEN "sell"
    ELSE IF program = "fetch" THEN "monitoring"
    ELSE IF a.monitoring_type = "Proximo ao Suporte" THEN "monitoring-support"
    ELSE IF a.monitoring_type = "Proximo a Resistencia" THEN "monitoring-resistance"
    ELSE IF a.monitoring_type = "Volume Atipico" THEN "monitoring-volume"
    ELSE IF a.monitoring_type = "Padrao Grafico" THEN "monitoring-pattern"
    ELSE "monitoring-trend"

\* Variant: the id carries the whole symbol.
idOfSymbol(a, program, t) == <<idKind(a, program), a.symbol, t>>
idOf(a, program, t) == <<idKind(a, program), baseSymbol(a.symbol), t>>

withId(a, program, t) ==
    [f \in DOMAIN a \cup {"id"} |-> IF f = "id" THEN idOf(a, program, t) ELSE a[f]]

\* The lists of one call, each alert with the id it is pushed with; t is
\* now.getTime() of the call.
Stamped(alerts, program, t) ==
    [kind \in {"buy", "sell", "monitoring"} |->
        [j \in 1..Len(alerts[kind]) |-> withId(alerts[kind][j], program, t)]]

\* The clock: the calls of one batch may read the same millisecond, which
\* is the case taken here and called by the batch's first index; the 500 ms
\* pause makes the batches differ.  The passes of the loop of fetchAlerts
\* may all read the same millisecond, called 0.
batchMillisecond(from) == from
loopMillisecond == 0

-----------------------------------------------------------------------------
(* The runs *)

\* symbols.slice(i, i + batchSize), 1-based
\* Variant: one symbol more per batch.
BatchOfSix(from) == {j \in from..(from + batchSize) : j <= Len(symbols)}
Batch(from) == {j \in from..(from + batchSize - 1) : j <= Len(symbols)}
BatchSymbols(from) == {symbols[j] : j \in Batch(from)}

\* Variant: a symbol without alerts discards what was collected before it.
ConcatResetOnEmpty(a, b) ==
    IF b.buy = <<>> /\ b.sell = <<>> /\ b.monitoring = <<>>
    THEN b
    ELSE [buy |-> a.buy \o b.buy, sell |-> a.sell \o b.sell,
          monitoring |-> a.monitoring \o b.monitoring]

Concat(a, b) ==
    [buy |-> a.buy \o b.buy, sell |-> a.sell \o b.sell,
     monitoring |-> a.monitoring \o b.monitoring]

\* batchResults.forEach(result => allAlerts.x = allAlerts.x.concat(result.x))
RECURSIVE CombineResults(_, _, _, _)
CombineResults(acc, res, from, to) ==
    IF from > to THEN acc
    ELSE CombineResults(Concat(acc, res[symbols[from]]), res, from + 1, to)

\* generateAlertsForMultipleSymbols starts: the first batch is launched.
StartTech ==
    /\ pc = "idle"
    /\ path' = "tech"
    /\ pc' = "batch"
    /\ i' = 1
    /\ pending' = BatchSymbols(1)
    /\ allAlerts' = EmptyAlerts
    /\ UNCHANGED <<nonAlertVars, symbols, market, analysis, results>>

\* One promise of the batch settles: the symbol's data arrived, its snapshot
\* is computed and its alerts derived.
GenerateTechnicalAlerts(sym) ==
    /\ pc = "batch"
    /\ sym \in pending
    /\ LET a == calculateAllIndicators(sym, market[sym])
       IN /\ analysis' = (sym :> a) @@ analysis
          /\ results' = (sym :> Stamped(generateTechnicalAlerts(sym, a), "tech",
                                       batchMillisecond(i))) @@ results
    /\ pending' = pending \ {sym}
    /\ UNCHANGED <<nonAlertVars, symbols, market, pc, path, i, allAlerts>>

\* Promise.all resolved: the batch's results are combined in input order;
\* then either the next batch is launched (after the 500 ms pause) or the
\* function returns.
CombineBatch ==
    /\ pc = "batch"
    /\ pending = {}
    /\ allAlerts' = CombineResults(allAlerts, results, i, Min(i + batchSize - 1, Len(symbols)))
    /\ IF i + batchSize <= Len(symbols)
       THEN /\ i' = i + batchSize
            /\ pending' = BatchSymbols(i + batchSize)
            /\ pc' = "batch"
       ELSE /\ pc' = "done"
            /\ UNCHANGED <<i, pending>>
    /\ UNCHANGED <<nonAlertVars, symbols, market, path, analysis, results>>

\* fetchAlerts starts: the price list is obtained, the lists are empty.
StartFetch ==
    /\ pc = "idle"
    /\ path' = "fetch"
    /\ pc' = "fetch"
    /\ i' = 1
    /\ allAlerts' = EmptyAlerts
    /\ UNCHANGED <<nonAlertVars, symbols, market, pending, analysis, results>>

\* One pass of the loop over the price list.
FetchSymbol ==
    /\ pc = "fetch"
    /\ i <= Len(symbols)
    /\ LET sym == symbols[i]
           d == market[sym]
       IN /\ allAlerts' = Concat(allAlerts, Stamped(fetchSymbolAlerts(sym, d), "fetch",
                                                   loopMillisecond))
          /\ analysis' = IF d.n < FETCH_MIN_CANDLES THEN analysis
                         ELSE (sym :> fetchIndicators(sym, d)) @@ analysis
    /\ i' = i + 1
    /\ UNCHANGED <<nonAlertVars, symbols, market, pc, path, pending, results>>

FetchReturn ==
    /\ pc = "fetch"
    /\ i > Len(symbols)
    /\ pc' = "done"
    /\ UNCHANGED <<nonAlertVars, symbols, market, path, i, pending, analysis, results, allAlerts>>

Next ==
    \/ StartTech
    \/ \E sym \in pending : GenerateTechnicalAlerts(sym)
    \/ CombineBatch
    \/ StartFetch
    \/ FetchSymbol
    \/ FetchReturn

Empty == [x \in {} |-> 0]

\* No library call is in progress.
NoCall == [fn |-> "none"]
NoReturn == [k |-> "pending"]

\* The page before DOMContentLoaded: nothing rendered, counters at 0.
NoId == <<>>
NoBadges == [buy |-> 0, sell |-> 0, monitoring |-> 0]
PageNotLoaded ==
    /\ uiPc = "loading"
    /\ now = 0
    /\ currentFilter = "compra"
    /\ cards = <<>>
    /\ badges = NoBadges
    /\ clicked = NoId
    /\ obtained = <<>>
    /\ selectedAlert = NoId
    /\ visibility = "visible"
    /\ lastUpdate = NULL
    /\ refreshing = FALSE
    /\ ticking = FALSE

\* api.js as loaded: both caches empty, no call running.
NoPrices == [source |-> "null", symbols |-> <<>>]
NoData == [source |-> "undefined", n |-> 0, timestamp |-> 0]
MONITORED_COINS == <<"BTC/USDT", "ETH/USDT">>
ApiLoaded ==
    /\ priceCache = [prices |-> NoPrices, lastUpdate |-> NULL]
    /\ historicalDataCache = [s \in {MONITORED_COINS[j] : j \in 1..Len(MONITORED_COINS)}
                                |-> NoData]
    /\ apiPc = "idle"
    /\ caller = "none"
    /\ queried = <<>>
    /\ currentPrices = NoPrices
    /\ idx = 1
    /\ fetched = <<>>

Start(syms, data) ==
    /\ symbols = syms
    /\ market \in [{syms[j] : j \in 1..Len(syms)} -> data]
    /\ pc = "idle"
    /\ path = "none"
    /\ i = 1
    /\ pending = {}
    /\ analysis = Empty
    /\ results = Empty
    /\ allAlerts = EmptyAlerts
    /\ call = NoCall
    /\ ret = NoReturn
    /\ api = "lists"
    /\ derived = <<>>
    /\ PageNotLoaded
    /\ protocol = "https:"
    /\ hasRSI = TRUE
    /\ ApiLoaded

\* A run over one symbol, over every kind of provider data.
Init == \E n \in CandleCounts : Start(SubSeq(SymbolList, 1, 1), DataOfLength(n))

Spec == Init /\ [][Next]_vars

\* Runs over several symbols: per symbol either no data, an oversold series
\* with a negative histogram, or an overbought one with a positive histogram
\* and a strong trend.
BatchData ==
    DataSet(0, {20100}, {}, {}, {}, {}, {}, {}, {}, {})
    \cup {d \in DataSet(100, {20100}, {25 * Scale, 8550}, {-50, 50},
                        {[lower |-> 20000, upper |-> 20300]}, {30 * Scale},
                        {<<>>}, {<<>>}, {15 * Scale, 30 * Scale}, {<<>>}) :
             /\ <<d.rsi, d.hist, d.adx>> \in
                    {<<25 * Scale, -50, 15 * Scale>>, <<8550, 50, 30 * Scale>>}
             /\ d.tail = FlatTail(d.price)}

InitBatch == \E k \in 1..MaxSymbols : Start(SubSeq(SymbolList, 1, k), BatchData)

SpecBatch == InitBatch /\ [][Next]_vars

-----------------------------------------------------------------------------
(* What a run has produced for a symbol *)

IsTech == path = "tech"
IsFetch == path = "fetch"

\* The symbol has been through its path's alert generation.
Processed(sym) ==
    \/ IsTech /\ sym \in DOMAIN results
    \/ IsFetch /\ \E j \in 1..(i - 1) : symbols[j] = sym

OfSymbol(list, sym) ==
    LET Test(a) == a.symbol = sym IN SelectSeq(list, Test)

\* The alerts generated for a processed symbol.
Emitted(sym) ==
    IF IsTech
    THEN results[sym]
    ELSE [buy |-> OfSymbol(allAlerts.buy, sym),
          sell |-> OfSymbol(allAlerts.sell, sym),
          monitoring |-> OfSymbol(allAlerts.monitoring, sym)]

\* The symbol has a snapshot: indicator values the rules were applied to.
HasSnapshot(sym) ==
    Processed(sym) /\ sym \in DOMAIN analysis /\ ~analysis[sym].error

Range(seq) == {seq[j] : j \in 1..Len(seq)}
Symbols == Range(symbols)

EmittedBuy == UNION {Range(Emitted(sym).buy) : sym \in {x \in Symbols : Processed(x)}}
EmittedSell == UNION {Range(Emitted(sym).sell) : sym \in {x \in Symbols : Processed(x)}}

\* The value of the snapshot RSI when it is a number.
RsiBelow(a, limit) == a.rsi.k = "num" /\ a.rsi.v < limit * Scale
RsiAbove(a, limit) == a.rsi.k = "num" /\ a.rsi.v > limit * Scale

-----------------------------------------------------------------------------
(* C1.  For every indicator snapshot, both alert generators emit exactly   *)
(* one BUY alert when the snapshot RSI is below 30 and no BUY alert        *)
(* otherwise, and exactly one SELL alert when the RSI is above 70 and no   *)
(* SELL alert otherwise.                                                   *)
C1_OneAlertIffRsi ==
    \A sym \in Symbols : HasSnapshot(sym) =>
        /\ Len(Emitted(sym).buy) = (IF RsiBelow(analysis[sym], 30) THEN 1 ELSE 0)
        /\ Len(Emitted(sym).sell) = (IF RsiAbove(analysis[sym], 70) THEN 1 ELSE 0)

\* The same statement restricted to snapshots whose RSI is a number: the
\* part of C1 the code satisfies.
C1_NumericRsi ==
    \A sym \in Symbols : (HasSnapshot(sym) /\ analysis[sym].rsi.k = "num") =>
        /\ Len(Emitted(sym).buy) = (IF RsiBelow(analysis[sym], 30) THEN 1 ELSE 0)
        /\ Len(Emitted(sym).sell) = (IF RsiAbove(analysis[sym], 70) THEN 1 ELSE 0)

-----------------------------------------------------------------------------
(* C2.  The confidence of a BUY or SELL alert is decided by the number of  *)
(* its confirmations alone: HIGH with two or three, MEDIUM with one, LOW   *)
(* with none.  The confirmations of an alert are the clauses of its        *)
(* recommendation; the volume clause is present exactly when the volume    *)
(* change exceeds 20%, the Bollinger clause of a BUY exactly when the      *)
(* price is at most 1.01 x the lower band.  The snapshot RSI=25,           *)
(* histogram +0.5, price 1.005 x lower band, volume change 30% yields one  *)
(* BUY alert of confidence HIGH.                                           *)

ConfidenceOf(count) ==
    CASE count >= 2 -> "HIGH"
      [] count = 1 -> "MEDIUM"
      [] count = 0 -> "LOW"

VolumeAbove(a, pct) == a.volumeChange.k = "num" /\ a.volumeChange.v > pct * Scale

\* The snapshot of the example.
IsExampleData(d) ==
    /\ d.n = 100
    /\ d.rsi = 25 * Scale
    /\ d.hist = 50
    /\ d.price * 1000 = d.lower * 1005
    /\ d.vol = 30 * Scale

C2_ConfidenceByCount ==
    \A sym \in Symbols : HasSnapshot(sym) =>
        /\ \A a \in Range(Emitted(sym).buy) \cup Range(Emitted(sym).sell) :
              /\ a.confidence = ConfidenceOf(Cardinality(a.recommendation))
              /\ "Volume" \in a.recommendation <=> VolumeAbove(analysis[sym], 20)
        /\ \A a \in Range(Emitted(sym).buy) :
              "Bollinger" \in a.recommendation <=>
                  /\ analysis[sym].bollinger.lower.k = "num"
                  /\ a.price.v * 100 <= analysis[sym].bollinger.lower.v * 101
        /\ \A a \in Range(Emitted(sym).sell) :
              "Bollinger" \in a.recommendation <=>
                  /\ analysis[sym].bollinger.upper.k = "num"
                  /\ a.price.v * 100 >= analysis[sym].bollinger.upper.v * 99
        /\ IsExampleData(market[sym]) =>
              /\ Len(Emitted(sym).buy) = 1
              /\ Emitted(sym).buy[1].confidence = "HIGH"
              /\ Cardinality(Emitted(sym).buy[1].recommendation) = 3

\* The example snapshot has been through a generator and produced its alert.
C2_Witness ==
    \E sym \in Symbols :
        /\ HasSnapshot(sym)
        /\ IsExampleData(market[sym])
        /\ Len(Emitted(sym).buy) = 1
        /\ Emitted(sym).buy[1].confidence = "HIGH"

-----------------------------------------------------------------------------
(* C3.  The SELL confirmations mirror the BUY confirmations: the BUY rule  *)
(* counts the MACD histogram h as a confirmation exactly when the SELL     *)
(* rule counts -h as one.  Stated on the alerts of one run: a BUY alert    *)
(* and a SELL alert whose histograms are opposite agree on the MACD        *)
(* clause.                                                                 *)
C3_MacdMirror ==
    \A b \in EmittedBuy : \A s \in EmittedSell :
        (/\ analysis[b.symbol].macd.k = "num"
         /\ analysis[s.symbol].macd.k = "num"
         /\ analysis[s.symbol].macd.v = -analysis[b.symbol].macd.v)
        => ("MACD" \in b.recommendation <=> "MACD" \in s.recommendation)

-----------------------------------------------------------------------------
(* C4.  When the RSI of a symbol cannot be computed (fewer than period + 1 *)
(* closes, calculateRSI returns null), no BUY or SELL alert is generated   *)
(* for it.                                                                 *)
C4_NoAlertWithoutRsi ==
    \A sym \in Symbols :
        (Processed(sym) /\ market[sym].n < RSI_PERIOD + 1) =>
            /\ Emitted(sym).buy = <<>>
            /\ Emitted(sym).sell = <<>>

-----------------------------------------------------------------------------
(* C5.  calculateAllIndicators returns the error outcome whenever the      *)
(* series is empty or one of RSI, SMA20, EMA50, EMA200, MACD, Bollinger,   *)
(* ATR, ADX has no final value, and a snapshot without error only when     *)
(* every one of them is defined.                                           *)
AllFinalValuesDefined(a) ==
    /\ a.rsi.k = "num"
    /\ a.sma20.k = "num"
    /\ a.ema50.k = "num"
    /\ a.ema200.k = "num"
    /\ a.macd.k = "num"
    /\ a.bollinger.upper.k = "num"
    /\ a.bollinger.lower.k = "num"
    /\ a.atr.k = "num"
    /\ a.adx.k = "num"

C5_ErrorIffUndefined ==
    \A sym \in Symbols :
        (IsTech /\ sym \in DOMAIN analysis) =>
            (analysis[sym].error <=>
                (market[sym].n = 0 \/ ~AllFinalValuesDefined(analysis[sym])))

-----------------------------------------------------------------------------
(* C6.  In generateAlertsForMultipleSymbols a symbol whose snapshot is the *)
(* error outcome contributes empty lists and neither aborts the run nor    *)
(* changes what the other symbols contribute: when the function returns,   *)
(* every symbol has been processed and each returned list is the           *)
(* concatenation, in input order, of the per-symbol lists.                 *)

IndexOf(sym) == CHOOSE j \in 1..Len(symbols) : symbols[j] = sym

RECURSIVE TotalLen(_, _)
TotalLen(kind, j) ==
    IF j = 0 THEN 0 ELSE TotalLen(kind, j - 1) + Len(results[symbols[j]][kind])

InInputOrder(list) ==
    \A p \in 1..Len(list) : \A q \in p..Len(list) :
        IndexOf(list[p].symbol) <= IndexOf(list[q].symbol)

C6_BatchConcatenation ==
    (IsTech /\ pc = "done") =>
        /\ \A sym \in Symbols : sym \in DOMAIN results /\ sym \in DOMAIN analysis
        /\ \A sym \in Symbols : analysis[sym].error => results[sym] = EmptyAlerts
        /\ \A kind \in {"buy", "sell", "monitoring"} :
              /\ \A sym \in Symbols :
                    OfSymbol(allAlerts[kind], sym) = results[sym][kind]
              /\ Len(allAlerts[kind]) = TotalLen(kind, Len(symbols))
              /\ InInputOrder(allAlerts[kind])

\* A finished run of two batches in which a symbol without data sits between
\* two symbols that produced alerts.
C6_Witness ==
    /\ IsTech /\ pc = "done"
    /\ Len(symbols) > batchSize
    /\ \E j, k, l \in 1..Len(symbols) :
          /\ j < k /\ k < l
          /\ analysis[symbols[k]].error
          /\ results[symbols[j]].buy # <<>>
          /\ results[symbols[l]].sell # <<>>
          /\ OfSymbol(allAlerts.sell, symbols[l]) # <<>>

-----------------------------------------------------------------------------
(* C7.  A snapshot with neutral RSI (30 <= RSI <= 70), ADX not above 25,   *)
(* price not in proximity of the first support or resistance level (by the *)
(* thresholds of the path that runs) and volume change 5% yields empty     *)
(* buy, sell and monitoring lists.                                         *)

NotNearLevels(a) ==
    LET p == a.lastPrice.v
    IN IF IsTech
       THEN /\ ~(a.support # <<>> /\ p * 100 <= a.support[1] * 102)
            /\ ~(a.resistance # <<>> /\ p * 100 >= a.resistance[1] * 98)
       ELSE /\ ~(a.support # <<>> /\ p >= a.support[1]
                  /\ (p - a.support[1]) * 100 < 3 * p)
            /\ ~(a.resistance # <<>> /\ a.resistance[1] >= p
                  /\ (a.resistance[1] - p) * 100 < 3 * p)

IsQuiet(a) ==
    /\ a.rsi.k = "num" /\ a.rsi.v >= 30 * Scale /\ a.rsi.v <= 70 * Scale
    /\ a.adx.k = "num" /\ a.adx.v <= 25 * Scale
    /\ a.volumeChange.k = "num" /\ a.volumeChange.v = 5 * Scale
    /\ NotNearLevels(a)

\* The snapshot of the per-symbol path carries no recent candlestick pattern.
NoRecentPattern(a) == IsTech => a.patterns = <<>>

\* C7 as claimed.
C7_QuietSnapshotNoAlerts ==
    \A sym \in Symbols :
        (HasSnapshot(sym) /\ IsQuiet(analysis[sym])) => Emitted(sym) = EmptyAlerts

\* C7 as amended: ... and, in the per-symbol path, no candlestick pattern on
\* the last three candles, the generator returns empty lists.
C7_QuietSnapshotNoPatternNoAlerts ==
    \A sym \in Symbols :
        (/\ HasSnapshot(sym)
         /\ IsQuiet(analysis[sym])
         /\ NoRecentPattern(analysis[sym]))
        => Emitted(sym) = EmptyAlerts

\* A quiet snapshot with support and resistance levels, both far from the
\* price, went through the per-symbol path and produced nothing.
C7_Witness ==
    \E sym \in Symbols :
        /\ IsTech
        /\ HasSnapshot(sym)
        /\ IsQuiet(analysis[sym])
        /\ NoRecentPattern(analysis[sym])
        /\ analysis[sym].support # <<>>
        /\ analysis[sym].resistance # <<>>
        /\ market[sym].pats # <<>>
        /\ Emitted(sym) = EmptyAlerts

-----------------------------------------------------------------------------
(* C8.  Every BUY alert has target = price x (1 + (30 - RSI)/100), which   *)
(* is strictly greater than its price, and every SELL alert has            *)
(* target = price x (1 - (RSI - 70)/100), strictly less than its price.    *)
(* Targets are numerators over TargetDen; a null RSI enters the arithmetic *)
(* as 0, as it does in the program.                                        *)

RsiNumber(a) == IF a.rsi.k = "num" THEN a.rsi.v ELSE 0

C8_Targets ==
    /\ \A a \in EmittedBuy :
          /\ a.price.v > 0
          /\ a.target.k = "num"
          /\ a.target.v = a.price.v * (TargetDen + (30 * Scale - RsiNumber(a)))
          /\ a.target.v > a.price.v * TargetDen
    /\ \A a \in EmittedSell :
          /\ a.price.v > 0
          /\ a.target.k = "num"
          /\ a.target.v = a.price.v * (TargetDen - (RsiNumber(a) - 70 * Scale))
          /\ a.target.v < a.price.v * TargetDen

\* A BUY alert at RSI 25 with target 1.05 x price has been emitted.
C8_Witness ==
    \E a \in EmittedBuy :
        /\ a.rsi = Num(25 * Scale)
        /\ a.price.v > 0
        /\ a.target.v * 100 = a.price.v * 105 * TargetDen

-----------------------------------------------------------------------------
(* C9.  In fetchAlerts each symbol gets at most one MONITORING alert, its  *)
(* monitoring_type is the first matching reason in the order support       *)
(* proximity (within 3%), resistance proximity (within 3%), volume change  *)
(* > 50%, ADX > 25, and whenever at least one of the four reasons holds    *)
(* exactly one monitoring alert is emitted.                                *)

SupportWithin3(a) ==
    /\ a.support # <<>>
    /\ a.lastPrice.v >= a.support[1]
    /\ (a.lastPrice.v - a.support[1]) * 100 < 3 * a.lastPrice.v

ResistanceWithin3(a) ==
    /\ a.resistance # <<>>
    /\ a.resistance[1] >= a.lastPrice.v
    /\ (a.resistance[1] - a.lastPrice.v) * 100 < 3 * a.lastPrice.v

AdxAbove25(a) == a.adx.k = "num" /\ a.adx.v > 25 * Scale

FirstReason(a) ==
    IF SupportWithin3(a) THEN "Proximo ao Suporte"
    ELSE IF ResistanceWithin3(a) THEN "Proximo a Resistencia"
    ELSE IF VolumeAbove(a, 50) THEN "Volume Atipico"
    ELSE IF AdxAbove25(a) THEN "Tendencia Forte"
    ELSE "none"

C9_FirstMatchingReason ==
    \A sym \in Symbols :
        (IsFetch /\ HasSnapshot(sym)) =>
            LET m == Emitted(sym).monitoring
                a == analysis[sym]
            IN /\ Len(m) <= 1
               /\ (FirstReason(a) # "none") <=> (Len(m) = 1)
               /\ Len(m) = 1 => m[1].monitoring_type = FirstReason(a)

-----------------------------------------------------------------------------
(* C10.  In generateTechnicalAlerts the monitoring checks are independent: *)
(* a support alert is emitted iff price <= 1.02 x the first support level, *)
(* a resistance alert iff price >= 0.98 x the first resistance level, a    *)
(* volume alert iff volume change > 100 and a trend alert iff ADX > 25,    *)
(* each regardless of the others, so one run may emit several monitoring   *)
(* alerts for the same symbol.                                             *)

OfType(list, t) == Cardinality({j \in 1..Len(list) : list[j].monitoring_type = t})

ExactlyWhen(list, t, cond) == OfType(list, t) = IF cond THEN 1 ELSE 0

C10_IndependentMonitoring ==
    \A sym \in Symbols :
        (IsTech /\ HasSnapshot(sym)) =>
            LET m == Emitted(sym).monitoring
                a == analysis[sym]
            IN /\ ExactlyWhen(m, "Proximo ao Suporte",
                      a.support # <<>> /\ a.lastPrice.v * 100 <= a.support[1] * 102)
               /\ ExactlyWhen(m, "Proximo a Resistencia",
                      a.resistance # <<>> /\ a.lastPrice.v * 100 >= a.resistance[1] * 98)
               /\ ExactlyWhen(m, "Volume Atipico", VolumeAbove(a, 100))
               /\ ExactlyWhen(m, "Tendencia Forte", AdxAbove25(a))

\* One run emitted all four kinds of monitoring alert for the same symbol.
C10_Witness ==
    \E sym \in Symbols :
        /\ IsTech /\ HasSnapshot(sym)
        /\ \A t \in {"Proximo ao Suporte", "Proximo a Resistencia",
                     "Volume Atipico", "Tendencia Forte"} :
              OfType(Emitted(sym).monitoring, t) = 1

-----------------------------------------------------------------------------
(* The indicator library (indicators_module.js) on concrete series.        *)
(*                                                                         *)
(* Its numbers are exact rationals [k |-> "num", n, d] in lowest terms     *)
(* with d > 0; the binary rounding of the language's doubles is not        *)
(* modelled.  0/0 is NaN, x/0 for x # 0 is infinite, and every operation   *)
(* on a value that is not a number yields NaN, as no function below        *)
(* computes with an infinite value or with null.  toFixed(k) rounds to k   *)
(* decimals, halves away from zero.                                        *)

Abs(x) == IF x < 0 THEN -x ELSE x
Sgn(x) == IF x < 0 THEN -1 ELSE IF x > 0 THEN 1 ELSE 0

RECURSIVE GCD(_, _)
GCD(a, b) == IF b = 0 THEN a ELSE GCD(b, a % b)

Q(n, d) == LET g == GCD(Abs(n), d) IN [k |-> "num", n |-> n \div g, d |-> d \div g]
NaN == [k |-> "nan", n |-> 0, d |-> 1]
Infinite(sign) == [k |-> "inf", n |-> sign, d |-> 1]
QNULL == [k |-> "null", n |-> 0, d |-> 1]
QUNDEFINED == [k |-> "undefined", n |-> 0, d |-> 1]

IsNum(x) == x.k = "num"
BothNum(a, b) == IsNum(a) /\ IsNum(b)

QAdd(a, b) == IF BothNum(a, b) THEN Q(a.n * b.d + b.n * a.d, a.d * b.d) ELSE NaN
QSub(a, b) == IF BothNum(a, b) THEN Q(a.n * b.d - b.n * a.d, a.d * b.d) ELSE NaN
QMul(a, b) == IF BothNum(a, b) THEN Q(a.n * b.n, a.d * b.d) ELSE NaN
QDiv(a, b) ==
    IF ~BothNum(a, b) THEN NaN
    ELSE IF b.n = 0 THEN (IF a.n = 0 THEN NaN ELSE Infinite(Sgn(a.n)))
    ELSE Q(a.n * b.d * Sgn(b.n), a.d * Abs(b.n))
\* Variant: the sign is kept.
QKeepSign(a) == a
QAbs(a) == IF IsNum(a) THEN Q(Abs(a.n), a.d) ELSE a
QMax(a, b) == IF BothNum(a, b) THEN (IF a.n * b.d >= b.n * a.d THEN a ELSE b) ELSE NaN

\* a < b, a > b, a === b on numbers; false when either is NaN.
QLT(a, b) == BothNum(a, b) /\ a.n * b.d < b.n * a.d
QGT(a, b) == BothNum(a, b) /\ a.n * b.d > b.n * a.d
QEQ(a, b) == BothNum(a, b) /\ a.n * b.d = b.n * a.d

RoundHalfAway(n, d) ==
    IF n >= 0 THEN (2 * n + d) \div (2 * d) ELSE -((2 * (-n) + d) \div (2 * d))

\* parseFloat(x.toFixed(digits)), with unit = 10^digits; NaN stays NaN.
toFixed(x, unit) == IF IsNum(x) THEN Q(RoundHalfAway(x.n * unit, x.d), unit) ELSE NaN

\* A series of integer prices as numbers.
Series(ints) == [j \in 1..Len(ints) |-> Q(ints[j], 1)]

\* arr[j - 1] of a JavaScript array: undefined beyond its end.
At(arr, j) == IF j >= 1 /\ j <= Len(arr) THEN arr[j] ELSE QUNDEFINED

\* arr.slice(from - 1, to).reduce((sum, x) => sum + x, 0)
RECURSIVE SumOf(_, _, _)
SumOf(arr, from, to) ==
    IF from > to \/ from > Len(arr) THEN Q(0, 1)
    ELSE QAdd(SumOf(arr, from, to - 1), IF to <= Len(arr) THEN arr[to] ELSE Q(0, 1))

\* Variant: one more leading null.
NullsAndOne(count) == [j \in 1..(count + 1) |-> [k |-> "null", n |-> 0, d |-> 1]]
Nulls(count) == [j \in 1..count |-> QNULL]

\* Wilder smoothing: avg = ((avg * (period - 1)) + xs[j]) / period for the
\* remaining changes.
RECURSIVE wilder(_, _, _, _)
wilder(avg, xs, j, period) ==
    IF j > Len(xs) THEN avg
    ELSE wilder(QDiv(QAdd(QMul(avg, Q(period - 1, 1)), xs[j]), Q(period, 1)),
                xs, j + 1, period)

\* Variant: the special cases are never detected.
neverAllZero(xs) == FALSE
\* xs.every(x => x === 0)
allZero(xs) == \A j \in DOMAIN xs : QEQ(xs[j], Q(0, 1))

calculateRSI(prices, period) ==
    IF Len(prices) < period + 1 THEN QNULL
    ELSE LET changes == [j \in 1..(Len(prices) - 1) |-> QSub(prices[j + 1], prices[j])]
             gains == [j \in DOMAIN changes |->
                          IF changes[j].n > 0 THEN changes[j] ELSE Q(0, 1)]
             losses == [j \in DOMAIN changes |->
                          IF changes[j].n < 0 THEN QAbs(changes[j]) ELSE Q(0, 1)]
             avgGain == wilder(QDiv(SumOf(gains, 1, period), Q(period, 1)),
                               gains, period + 1, period)
             avgLoss == wilder(QDiv(SumOf(losses, 1, period), Q(period, 1)),
                               losses, period + 1, period)
             rs == QDiv(avgGain, avgLoss)
             rsi == QSub(Q(100, 1), QDiv(Q(100, 1), QAdd(Q(1, 1), rs)))
         IN IF allZero(changes) THEN Q(50, 1)
            ELSE IF allZero(losses) THEN Q(100, 1)
            ELSE IF allZero(gains) THEN Q(0, 1)
            ELSE IF QEQ(avgLoss, Q(0, 1)) THEN Q(100, 1)
            ELSE toFixed(rsi, 100)

calculateSMA(prices, period) ==
    IF Len(prices) < period THEN <<>>
    ELSE Nulls(period - 1)
         \o [j \in 1..(Len(prices) - period + 1) |->
                toFixed(QDiv(SumOf(prices, j, j + period - 1), Q(period, 1)), 100)]

\* ema.push(parseFloat(((prices[i] - last) * multiplier + last).toFixed(2)))
RECURSIVE emaFrom(_, _, _, _)
emaFrom(ema, prices, j, period) ==
    IF j > Len(prices) THEN ema
    ELSE LET last == ema[Len(ema)]
             multiplier == QDiv(Q(2, 1), Q(period + 1, 1))
             currentEMA == QAdd(QMul(QSub(prices[j], last), multiplier), last)
         IN emaFrom(Append(ema, toFixed(currentEMA, 100)), prices, j + 1, period)

calculateEMA(prices, period) ==
    IF Len(prices) < period THEN <<>>
    ELSE LET smaFirst == QDiv(SumOf(prices, 1, period), Q(period, 1))
         IN Nulls(period - 1) \o emaFrom(<<smaFirst>>, prices, period + 1, period)

\* Variant: every entry counts as a value.
anyEntry(x) == TRUE
\* value !== null: also true of undefined
NotNull(x) == x.k # "null"

calculateMACD(prices, fastPeriod, slowPeriod, signalPeriod) ==
    IF Len(prices) < slowPeriod + signalPeriod
    THEN [line |-> <<>>, signal |-> <<>>, histogram |-> <<>>]
    ELSE LET fastEMA == calculateEMA(prices, fastPeriod)
             slowEMA == calculateEMA(prices, slowPeriod)
             macdLine == [j \in 1..Len(prices) |->
                            IF NotNull(At(fastEMA, j)) /\ NotNull(At(slowEMA, j))
                            THEN toFixed(QSub(At(fastEMA, j), At(slowEMA, j)), 100)
                            ELSE QNULL]
             validMacdValues == SelectSeq(macdLine, NotNull)
             signalEMA == calculateEMA(validMacdValues, signalPeriod)
             signalLine == Nulls(Len(macdLine) - Len(validMacdValues)) \o signalEMA
             histogram == [j \in 1..Len(macdLine) |->
                            IF NotNull(macdLine[j]) /\ NotNull(At(signalLine, j))
                            THEN toFixed(QSub(macdLine[j], At(signalLine, j)), 100)
                            ELSE QNULL]
         IN [line |-> macdLine, signal |-> signalLine, histogram |-> histogram]

\* padding.slice(0, end): a negative end counts from the end of the array.
Slice0(arr, end) ==
    LET to == IF end < 0 THEN Len(arr) + end ELSE end
    IN SubSeq(arr, 1, IF to < 0 THEN 0 ELSE IF to > Len(arr) THEN Len(arr) ELSE to)

QC(candle) == [open |-> Q(candle.open, 1), high |-> Q(candle.high, 1),
               low |-> Q(candle.low, 1), close |-> Q(candle.close, 1)]

\* Math.max(high - low, |high - prevClose|, |low - prevClose|)
trueRange(c, prev) ==
    QMax(QMax(QSub(c.high, c.low), QAbs(QSub(c.high, prev.close))),
         QAbs(QSub(c.low, prev.close)))

upMove(c, prev) == QSub(c.high, prev.high)
downMove(c, prev) == QSub(prev.low, c.low)
plusDMOf(c, prev) ==
    IF QGT(upMove(c, prev), downMove(c, prev)) /\ QGT(upMove(c, prev), Q(0, 1))
    THEN upMove(c, prev) ELSE Q(0, 1)
minusDMOf(c, prev) ==
    IF QGT(upMove(c, prev), downMove(c, prev)) /\ QGT(upMove(c, prev), Q(0, 1))
    THEN Q(0, 1)
    ELSE IF QGT(downMove(c, prev), upMove(c, prev)) /\ QGT(downMove(c, prev), Q(0, 1))
    THEN downMove(c, prev) ELSE Q(0, 1)

\* smoothed = smoothed - (smoothed / period) + xs[j]
smoothStep(smoothed, x, period) ==
    QAdd(QSub(smoothed, QDiv(smoothed, Q(period, 1))), x)

\* The loop that yields +DI, -DI and DX for each period.
RECURSIVE directionalLoop(_, _, _, _, _, _)
directionalLoop(st, trs, pdms, mdms, j, period) ==
    IF j > Len(trs) THEN st
    ELSE LET smoothedTR == smoothStep(st.tr, trs[j], period)
             smoothedPlusDM == smoothStep(st.pdm, pdms[j], period)
             smoothedMinusDM == smoothStep(st.mdm, mdms[j], period)
             plusDI == QMul(QDiv(smoothedPlusDM, smoothedTR), Q(100, 1))
             minusDI == QMul(QDiv(smoothedMinusDM, smoothedTR), Q(100, 1))
             dx == QMul(QAbs(QDiv(QSub(plusDI, minusDI), QAdd(plusDI, minusDI))),
                        Q(100, 1))
         IN directionalLoop(
                [tr |-> smoothedTR, pdm |-> smoothedPlusDM, mdm |-> smoothedMinusDM,
                 plusDIs |-> Append(st.plusDIs, toFixed(plusDI, 100)),
                 minusDIs |-> Append(st.minusDIs, toFixed(minusDI, 100)),
                 dxValues |-> Append(st.dxValues, toFixed(dx, 100))],
                trs, pdms, mdms, j + 1, period)

\* adx = ((adx * (period - 1)) + dxValues[i + period - 1]) / period, pushed rounded
RECURSIVE adxLoop(_, _, _, _, _)
adxLoop(adx, adxValues, dxValues, j, period) ==
    IF j > Len(dxValues) THEN adxValues
    ELSE LET next == QDiv(QAdd(QMul(adx, Q(period - 1, 1)), dxValues[j]), Q(period, 1))
         IN adxLoop(next, Append(adxValues, toFixed(next, 100)), dxValues, j + 1, period)

calculateADX(candles, period) ==
    IF Len(candles) < period * 2
    THEN [adx |-> <<>>, plusDI |-> <<>>, minusDI |-> <<>>]
    ELSE LET prices == [j \in 1..Len(candles) |-> QC(candles[j])]
             steps == 1..(Len(prices) - 1)
             trueRanges == [j \in steps |-> trueRange(prices[j + 1], prices[j])]
             plusDM == [j \in steps |-> plusDMOf(prices[j + 1], prices[j])]
             minusDM == [j \in steps |-> minusDMOf(prices[j + 1], prices[j])]
             st == directionalLoop(
                       [tr |-> SumOf(trueRanges, 1, period),
                        pdm |-> SumOf(plusDM, 1, period),
                        mdm |-> SumOf(minusDM, 1, period),
                        plusDIs |-> <<>>, minusDIs |-> <<>>, dxValues |-> <<>>],
                       trueRanges, plusDM, minusDM, period + 1, period)
             adx0 == QDiv(SumOf(st.dxValues, 1, period), Q(period, 1))
             adxValues == adxLoop(adx0, <<toFixed(adx0, 100)>>, st.dxValues,
                                  period + 1, period)
             nullPadding == Nulls(Len(prices) - Len(adxValues))
         IN [adx |-> nullPadding \o adxValues,
             plusDI |-> Slice0(nullPadding, Len(nullPadding) - Len(st.plusDIs))
                        \o st.plusDIs,
             minusDI |-> Slice0(nullPadding, Len(nullPadding) - Len(st.minusDIs))
                         \o st.minusDIs]

\* Variant: a tolerance of 1%.
isNearGroupOnePercent(level, group) ==
    QLT(QDiv(QAbs(QSub(level.price, group.price)), group.price), Q(10, 1000))
\* Math.abs(level.price - group.price) / group.price < threshold
isNearGroup(level, group) ==
    QLT(QDiv(QAbs(QSub(level.price, group.price)), group.price), Q(5, 1000))

\* One pass of the outer loop of groupLevels: the level joins the first group
\* it is near to, or opens a new one.
addLevel(grouped, level) ==
    LET near == {g \in 1..Len(grouped) : isNearGroup(level, grouped[g])}
    IN IF near # {}
       THEN LET g == CHOOSE x \in near : \A y \in near : x <= y
                group == grouped[g]
                totalWeight == group.strength + 1
            IN [grouped EXCEPT ![g] =
                   [price |-> QDiv(QAdd(QMul(group.price, Q(group.strength, 1)), level.price),
                                   Q(totalWeight, 1)),
                    strength |-> totalWeight]]
       ELSE Append(grouped, [price |-> level.price, strength |-> 1])

RECURSIVE groupLevels(_)
groupLevels(levels) ==
    IF levels = <<>> THEN <<>>
    ELSE addLevel(groupLevels(SubSeq(levels, 1, Len(levels) - 1)), levels[Len(levels)])

\* The candle at 1-based position j is a local minimum / maximum.
isLocalLow(prices, j) ==
    /\ prices[j].low < prices[j - 1].low /\ prices[j].low < prices[j - 2].low
    /\ prices[j].low < prices[j + 1].low /\ prices[j].low < prices[j + 2].low
isLocalHigh(prices, j) ==
    /\ prices[j].high > prices[j - 1].high /\ prices[j].high > prices[j - 2].high
    /\ prices[j].high > prices[j + 1].high /\ prices[j].high > prices[j + 2].high

\* for (let i = 5; i < prices.length - 5; i++): 1-based positions 6..length-5
positions(prices) == [j \in 1..(IF Len(prices) > 10 THEN Len(prices) - 10 ELSE 0) |-> j + 5]

supportPoints(prices) ==
    LET found == SelectSeq(positions(prices), LAMBDA j : isLocalLow(prices, j))
    IN [x \in 1..Len(found) |-> [price |-> Q(prices[found[x]].low, 1), index |-> found[x] - 1]]
resistancePoints(prices) ==
    LET found == SelectSeq(positions(prices), LAMBDA j : isLocalHigh(prices, j))
    IN [x \in 1..Len(found) |-> [price |-> Q(prices[found[x]].high, 1), index |-> found[x] - 1]]

\* groups.sort((a, b) => b.strength - a.strength): stable, strongest first
RECURSIVE sortByStrength(_)
sortByStrength(groups) ==
    IF groups = <<>> THEN <<>>
    ELSE LET rest == sortByStrength(SubSeq(groups, 1, Len(groups) - 1))
             g == groups[Len(groups)]
             ahead == Cardinality({j \in 1..Len(rest) : rest[j].strength >= g.strength})
         IN SubSeq(rest, 1, ahead) \o <<g>> \o SubSeq(rest, ahead + 1, Len(rest))

topLevels(points) ==
    LET sorted == sortByStrength(groupLevels(points))
    IN [j \in 1..Min(3, Len(sorted)) |-> toFixed(sorted[j].price, 100)]

findSupportResistanceLevelsOf(prices, lookback) ==
    IF Len(prices) < lookback THEN [support |-> <<>>, resistance |-> <<>>]
    ELSE [support |-> topLevels(supportPoints(prices)),
          resistance |-> topLevels(resistancePoints(prices))]

-----------------------------------------------------------------------------
(* Calls of the library on small series *)

MaxPrices == 5      \* longest price series
MaxCandles == 4     \* longest candle sequence given to calculateADX
MaxLevels == 4      \* most extrema given to groupLevels

SeqsUpTo(S, n) == UNION {[1..len -> S] : len \in 0..n}

PriceLevels == 1..3
Periods == 1..3
PriceSeries == SeqsUpTo(PriceLevels, MaxPrices)

\* Valid candles (low <= open, close <= high): two flat ones, a rising and
\* a falling one.
CandleShapes ==
    {[open |-> 1, high |-> 1, low |-> 1, close |-> 1],
     [open |-> 2, high |-> 2, low |-> 2, close |-> 2],
     [open |-> 1, high |-> 3, low |-> 1, close |-> 3],
     [open |-> 3, high |-> 3, low |-> 1, close |-> 1]}
CandleSeries == SeqsUpTo(CandleShapes, MaxCandles)

\* Candles for the search of local extrema: a low and a high one, in
\* sequences of 5 and 11 candles.
LevelShapes ==
    {[open |-> 100, high |-> 300, low |-> 100, close |-> 300],
     [open |-> 200, high |-> 400, low |-> 200, close |-> 400]}
LevelSeries == [1..5 -> LevelShapes] \cup [1..11 -> LevelShapes]
Lookbacks == {5, 11}

\* Extrema at 100, 100.3, 100.6 and 110, in tenths.
ExtremaPrices == {1000, 1003, 1006, 1100}
ExtremaSeries == SeqsUpTo(ExtremaPrices, MaxLevels)

\* identifyCandlePatterns (indicators_module.js), on candles with whole
\* prices.  Positions are those of the source, counted from 0.

bodyOf(c) == Abs(c.close - c.open)
upperShadow(c) == c.high - (IF c.open > c.close THEN c.open ELSE c.close)
lowerShadow(c) == (IF c.open < c.close THEN c.open ELSE c.close) - c.low

\* c3Body / ((c3.high - c3.low) || 1) < 0.1
isDoji(c3) ==
    bodyOf(c3) * 10 < (IF c3.high - c3.low = 0 THEN 1 ELSE c3.high - c3.low)

isHammer(c3) ==
    /\ c3.close > c3.open
    /\ lowerShadow(c3) > bodyOf(c3) * 2
    /\ upperShadow(c3) * 2 < bodyOf(c3)

isShootingStar(c3) ==
    /\ c3.close < c3.open
    /\ upperShadow(c3) > bodyOf(c3) * 2
    /\ lowerShadow(c3) * 2 < bodyOf(c3)

isBullishEngulfing(c2, c3) ==
    /\ c2.close < c2.open
    /\ c3.close > c3.open
    /\ c3.close > c2.open
    /\ c3.open < c2.close

isBearishEngulfing(c2, c3) ==
    /\ c2.close > c2.open
    /\ c3.close < c3.open
    /\ c3.close < c2.open
    /\ c3.open > c2.close

\* The source breaks off inside the push of this pattern, the last one it
\* shows; its name and comment say bullish.
isBullishHarami(c2, c3) ==
    /\ c2.close < c2.open
    /\ c3.close > c3.open
    /\ c3.high < c2.open
    /\ c3.low > c2.close

\* The source ends before the bearish counterpart; it is the mirror image
\* of the bullish one: the range of c3 inside the body of a rising c2.
isBearishHarami(c2, c3) ==
    /\ c2.close > c2.open
    /\ c3.close < c3.open
    /\ c3.high < c2.close
    /\ c3.low > c2.open

patternAt(name, significance, position) ==
    [pattern |-> name, position |-> position, significance |-> significance]

\* The patterns pushed in one pass of the loop, i the position of c3.
patternsAt(c2, c3, position) ==
    PushIf(isDoji(c3), patternAt("Doji", "neutral", position))
    \o PushIf(isHammer(c3), patternAt("Martelo", "bullish", position))
    \o PushIf(isShootingStar(c3), patternAt("Estrela Cadente", "bearish", position))
    \o PushIf(isBullishEngulfing(c2, c3), patternAt("Engolfo de Alta", "bullish", position))
    \o PushIf(isBearishEngulfing(c2, c3), patternAt("Engolfo de Baixa", "bearish", position))
    \o PushIf(isBullishHarami(c2, c3), patternAt("Harami de Alta", "bullish", position))
    \o PushIf(isBearishHarami(c2, c3), patternAt("Harami de Baixa", "bearish", position))

\* Variant: the loop begins one candle earlier.
firstPatternPositionOne == 2 - 1
\* for (let i = 2; i < candles.length; i++)
firstPatternPosition == 2

RECURSIVE patternLoop(_, _)
patternLoop(candles, position) ==
    IF position >= Len(candles) THEN <<>>
    ELSE patternsAt(candles[position], candles[position + 1], position)
         \o patternLoop(candles, position + 1)

identifyCandlePatternsOf(candles) ==
    IF Len(candles) < 3 \/ candles[1].open = 0 THEN <<>>
    ELSE patternLoop(candles, firstPatternPosition)

\* Candles for the patterns: a hammer that is a doji as well, a plain
\* hammer, a shooting star, a long rising and a long falling candle, a short
\* falling and a short rising one, and a flat one.
PatternShapes ==
    {[open |-> 20, high |-> 21, low |-> 10, close |-> 21],
     [open |-> 10, high |-> 11, low |-> 7, close |-> 11],
     [open |-> 11, high |-> 14, low |-> 10, close |-> 10],
     [open |-> 9, high |-> 12, low |-> 9, close |-> 12],
     [open |-> 12, high |-> 12, low |-> 9, close |-> 9],
     [open |-> 11, high |-> 11, low |-> 10, close |-> 10],
     [open |-> 10, high |-> 11, low |-> 10, close |-> 11],
     [open |-> 10, high |-> 10, low |-> 10, close |-> 10]}
PatternSeries == SeqsUpTo(PatternShapes, MaxCandles)

LibCalls ==
    [fn : {"identifyCandlePatterns"}, prices : PatternSeries]
    \cup
    [fn : {"calculateRSI", "calculateSMA", "calculateEMA"},
     prices : PriceSeries, period : Periods]
    \cup {c \in [fn : {"calculateMACD"}, prices : PriceSeries,
                  fastPeriod : {1, 2}, slowPeriod : {2, 3}, signalPeriod : {2}] :
              c.fastPeriod < c.slowPeriod}
    \cup [fn : {"calculateADX"}, prices : CandleSeries, period : {1, 2}]
    \cup [fn : {"findSupportResistanceLevels"}, prices : LevelSeries, lookback : Lookbacks]
    \cup [fn : {"groupLevels"}, prices : ExtremaSeries]

Returned(value) == [k |-> "returned", v |-> value]
Calls(fn) == call.fn = fn /\ ret.k = "pending"
Called(fn) == call.fn = fn /\ ret.k = "returned"

\* The levels handed to groupLevels: extrema in arrival order.
Levels(ints) == [j \in 1..Len(ints) |-> [price |-> Q(ints[j], 1), index |-> j + 4]]

CalculateRSI ==
    /\ Calls("calculateRSI")
    /\ ret' = Returned(calculateRSI(Series(call.prices), call.period))
    /\ UNCHANGED <<nonLibVars, call>>

CalculateSMA ==
    /\ Calls("calculateSMA")
    /\ ret' = Returned(calculateSMA(Series(call.prices), call.period))
    /\ UNCHANGED <<nonLibVars, call>>

CalculateEMA ==
    /\ Calls("calculateEMA")
    /\ ret' = Returned(calculateEMA(Series(call.prices), call.period))
    /\ UNCHANGED <<nonLibVars, call>>

CalculateMACD ==
    /\ Calls("calculateMACD")
    /\ ret' = Returned(calculateMACD(Series(call.prices), call.fastPeriod,
                                     call.slowPeriod, call.signalPeriod))
    /\ UNCHANGED <<nonLibVars, call>>

CalculateADX ==
    /\ Calls("calculateADX")
    /\ ret' = Returned(calculateADX(call.prices, call.period))
    /\ UNCHANGED <<nonLibVars, call>>

FindSupportResistanceLevels ==
    /\ Calls("findSupportResistanceLevels")
    /\ ret' = Returned(findSupportResistanceLevelsOf(call.prices, call.lookback))
    /\ UNCHANGED <<nonLibVars, call>>

GroupLevels ==
    /\ Calls("groupLevels")
    /\ ret' = Returned(groupLevels(Levels(call.prices)))
    /\ UNCHANGED <<nonLibVars, call>>

IdentifyCandlePatterns ==
    /\ Calls("identifyCandlePatterns")
    /\ ret' = Returned(identifyCandlePatternsOf(call.prices))
    /\ UNCHANGED <<nonLibVars, call>>

NextLib ==
    \/ IdentifyCandlePatterns
    \/ CalculateRSI
    \/ CalculateSMA
    \/ CalculateEMA
    \/ CalculateMACD
    \/ CalculateADX
    \/ FindSupportResistanceLevels
    \/ GroupLevels

InitLib ==
    /\ symbols = <<>>
    /\ market = Empty
    /\ pc = "idle"
    /\ path = "none"
    /\ i = 1
    /\ pending = {}
    /\ analysis = Empty
    /\ results = Empty
    /\ allAlerts = EmptyAlerts
    /\ call \in LibCalls
    /\ ret = NoReturn
    /\ api = "lists"
    /\ derived = <<>>
    /\ PageNotLoaded
    /\ protocol = "https:"
    /\ hasRSI = TRUE
    /\ ApiLoaded

SpecLib == InitLib /\ [][NextLib]_vars

-----------------------------------------------------------------------------
(* C11.  For a price series with at least period+1 prices, calculateRSI    *)
(* returns exactly 50 when all prices are equal, exactly 100 when the      *)
(* series is strictly increasing and exactly 0 when it is strictly         *)
(* decreasing, and no call yields the result of a division by zero.        *)

AllEqual(ps) == \A j \in 1..(Len(ps) - 1) : ps[j + 1] = ps[j]
StrictlyIncreasing(ps) == \A j \in 1..(Len(ps) - 1) : ps[j + 1] > ps[j]
StrictlyDecreasing(ps) == \A j \in 1..(Len(ps) - 1) : ps[j + 1] < ps[j]

C11_RsiSpecialSeries ==
    Called("calculateRSI") =>
        /\ ret.v.k \in {"num", "null"}
        /\ Len(call.prices) >= call.period + 1 =>
              /\ AllEqual(call.prices) => ret.v = Q(50, 1)
              /\ StrictlyIncreasing(call.prices) => ret.v = Q(100, 1)
              /\ StrictlyDecreasing(call.prices) => ret.v = Q(0, 1)

\* The call on the flat series 2, 2, 2, 2 with period 2 returned 50.
C11_Witness ==
    /\ Called("calculateRSI")
    /\ call.prices = <<2, 2, 2, 2>>
    /\ call.period = 2
    /\ ret.v = Q(50, 1)

-----------------------------------------------------------------------------
(* C12.  calculateRSI returns null exactly when fewer than period+1 prices *)
(* are given, and every non-null value it returns is a number in [0, 100]. *)

InUnitRange(x) == IsNum(x) /\ x.n >= 0 /\ x.n <= 100 * x.d

C12_RsiNullOrInRange ==
    Called("calculateRSI") =>
        /\ (ret.v.k = "null") <=> (Len(call.prices) < call.period + 1)
        /\ ret.v.k # "null" => InUnitRange(ret.v)

\* A call on a series with gains and losses returned a value strictly
\* between 0 and 100 that is none of the special ones.
C12_Witness ==
    /\ Called("calculateRSI")
    /\ InUnitRange(ret.v)
    /\ ret.v \notin {Q(0, 1), Q(50, 1), Q(100, 1)}
    /\ Len(call.prices) = MaxPrices

-----------------------------------------------------------------------------
(* C13.  The output of calculateSMA and of calculateEMA has the length of  *)
(* the input, with exactly period-1 leading null entries and a number at   *)
(* every later index.                                                      *)

IsAverageCall == Called("calculateSMA") \/ Called("calculateEMA")

Aligned(out, prices, period) ==
    /\ Len(out) = Len(prices)
    /\ \A j \in 1..Len(out) :
          IF j <= period - 1 THEN out[j].k = "null" ELSE IsNum(out[j])
    /\ Len(out) >= period - 1

\* C13 as claimed: for every input series and period.
C13_AveragesAligned ==
    IsAverageCall => Aligned(ret.v, call.prices, call.period)

\* C13 as amended: for every series of at least period prices.
C13_AveragesAlignedWhenLongEnough ==
    (IsAverageCall /\ Len(call.prices) >= call.period)
        => Aligned(ret.v, call.prices, call.period)

\* calculateEMA on five prices with period 3 returned two nulls and three
\* numbers.
C13_Witness ==
    /\ Called("calculateEMA")
    /\ Len(call.prices) = 5
    /\ call.period = 3
    /\ Len(ret.v) = 5
    /\ ret.v[2].k = "null"
    /\ IsNum(ret.v[3])

-----------------------------------------------------------------------------
(* C14.  For a series of at least slow+signal prices, calculateMACD        *)
(* returns line, signal and histogram of the input length with             *)
(* histogram[i] = line[i] - signal[i] wherever both are defined and        *)
(* histogram[i] null wherever either is null; the last histogram entry is  *)
(* defined.                                                                *)

LongEnoughForMACD ==
    /\ Called("calculateMACD")
    /\ Len(call.prices) >= call.slowPeriod + call.signalPeriod

MacdShape(m, len) ==
    /\ Len(m.line) = len /\ Len(m.signal) = len /\ Len(m.histogram) = len
    /\ \A j \in 1..len :
          (m.histogram[j].k = "null") <=> (m.line[j].k = "null" \/ m.signal[j].k = "null")
    /\ \A j \in 1..len : m.histogram[j].k \in {"null", "num"}
    /\ len > 0 => IsNum(m.histogram[len])

-----------------------------------------------------------------------------
(* C15.  For a valid candle sequence (low <= open, close <= high) of at    *)
(* least 2 x period candles, every defined ADX, +DI and -DI value returned *)
(* by calculateADX is a number within [0, 100], flat candles and sequences *)
(* without directional movement included.                                  *)

ValidCandle(c) ==
    /\ c.low <= c.open /\ c.open <= c.high
    /\ c.low <= c.close /\ c.close <= c.high

AllInUnitRange(arr) == \A j \in 1..Len(arr) : arr[j].k # "null" => InUnitRange(arr[j])

C15_AdxWithinRange ==
    (/\ Called("calculateADX")
     /\ Len(call.prices) >= 2 * call.period
     /\ \A j \in 1..Len(call.prices) : ValidCandle(call.prices[j]))
    => /\ AllInUnitRange(ret.v.adx)
       /\ AllInUnitRange(ret.v.plusDI)
       /\ AllInUnitRange(ret.v.minusDI)

\* What does hold: every defined value is NaN or a number within [0, 100].
C15_AdxWithinRangeOrNaN ==
    Called("calculateADX") =>
        \A arr \in {ret.v.adx, ret.v.plusDI, ret.v.minusDI} :
            \A j \in 1..Len(arr) :
                arr[j].k \in {"null", "nan"} \/ InUnitRange(arr[j])

-----------------------------------------------------------------------------
(* C16.  findSupportResistanceLevels collects as a support point every     *)
(* candle whose low is strictly lower than the lows of its 2 neighbours on *)
(* each side, and as a resistance point every candle whose high is         *)
(* strictly higher than the highs of its 2 neighbours on each side, for    *)
(* every candle index that has 2 neighbours on each side.                  *)

\* 1-based positions with two neighbours on each side.
WithNeighbours(prices) == 3..(Len(prices) - 2)

CollectedAt(points, j) == \E x \in 1..Len(points) : points[x].index = j - 1

C16_EveryLocalExtremumCollected ==
    (Called("findSupportResistanceLevels") /\ Len(call.prices) >= call.lookback) =>
        \A j \in WithNeighbours(call.prices) :
            /\ isLocalLow(call.prices, j) <=> CollectedAt(supportPoints(call.prices), j)
            /\ isLocalHigh(call.prices, j) <=> CollectedAt(resistancePoints(call.prices), j)
            /\ isLocalLow(call.prices, j) => ret.v.support # <<>>
            /\ isLocalHigh(call.prices, j) => ret.v.resistance # <<>>

\* What does hold: the same for the positions the loop visits, 5 candles
\* away from either end.
C16_ScannedExtremaCollected ==
    (Called("findSupportResistanceLevels") /\ Len(call.prices) >= call.lookback) =>
        \A j \in 6..(Len(call.prices) - 5) :
            /\ isLocalLow(call.prices, j) <=> CollectedAt(supportPoints(call.prices), j)
            /\ isLocalHigh(call.prices, j) <=> CollectedAt(resistancePoints(call.prices), j)
            /\ isLocalLow(call.prices, j) => ret.v.support # <<>>
            /\ isLocalHigh(call.prices, j) => ret.v.resistance # <<>>

-----------------------------------------------------------------------------
(* C17.  groupLevels processes extrema in arrival order: a point joins the *)
(* first existing group whose running-average price is within 0.5%         *)
(* relative distance (the group's price becomes the strength-weighted mean *)
(* and its strength grows by one), otherwise it opens a new group of       *)
(* strength 1.  Extrema at 100 and 100.3 form one group of strength 2, an  *)
(* extremum at 110 a separate group, and the strengths of all groups sum   *)
(* to the number of points processed.                                      *)

RECURSIVE TotalStrength(_)
TotalStrength(groups) ==
    IF groups = <<>> THEN 0
    ELSE groups[Len(groups)].strength + TotalStrength(SubSeq(groups, 1, Len(groups) - 1))

\* |x - n/d| / (n/d) < 0.005 for a group price n/d > 0 and an integer x
Within(x, price) == Abs(x * price.d - price.n) * 1000 < 5 * price.n

\* The groups after one more point x, by the rule of the claim.
AfterPoint(groups, x) ==
    LET near == {g \in 1..Len(groups) : Within(x, groups[g].price)}
    IN IF near = {} THEN groups \o <<[price |-> Q(x, 1), strength |-> 1]>>
       ELSE LET g == CHOOSE a \in near : \A b \in near : a <= b
            IN [j \in 1..Len(groups) |->
                   IF j # g THEN groups[j]
                   ELSE [price |-> Q(groups[g].price.n * groups[g].strength
                                       + x * groups[g].price.d,
                                     groups[g].price.d * (groups[g].strength + 1)),
                         strength |-> groups[g].strength + 1]]

C17_GreedyGrouping ==
    Called("groupLevels") =>
        LET points == call.prices
            len == Len(points)
        IN /\ TotalStrength(ret.v) = len
           /\ len = 0 => ret.v = <<>>
           /\ len > 0 =>
                 ret.v = AfterPoint(groupLevels(Levels(SubSeq(points, 1, len - 1))),
                                    points[len])
           /\ points = <<1000, 1003, 1100>> =>
                 ret.v = <<[price |-> Q(2003, 2), strength |-> 2],
                           [price |-> Q(1100, 1), strength |-> 1]>>

\* The extrema 100, 100.6, 100.3 were grouped: the third is near both
\* groups and joined the first.
C17_Witness ==
    /\ Called("groupLevels")
    /\ call.prices = <<1000, 1006, 1003>>
    /\ Len(ret.v) = 2
    /\ ret.v[1].strength = 2
    /\ ret.v[2] = [price |-> Q(1006, 1), strength |-> 1]

--------------------------------------------------------------------------
\* The page (app.js): it renders the alerts as cards, counts the unread ones
\* in the badges of the three filter buttons, and reacts to a click on a card.

MaxClock == 5

FILTER_TYPES == [BUY |-> "compra", SELL |-> "venda", MONITORING |-> "monitoramento"]
Filters == {FILTER_TYPES.BUY, FILTER_TYPES.SELL, FILTER_TYPES.MONITORING}
Categories == {"buy", "sell", "monitoring"}

\* What the market makes fetchAlerts derive, held still during a session:
\* the loop of fetchAlerts follows the order of the coins.
DerivableAlerts == <<<<"buy", "BTC">>, <<"buy", "ADA">>, <<"sell", "ETH">>,
                     <<"monitoring", "SOL">>>>
DerivedChoices ==
    {<<>>} \cup {<<DerivableAlerts[a]>> : a \in 1..Len(DerivableAlerts)}
           \cup {<<DerivableAlerts[p[1]], DerivableAlerts[p[2]]>> :
                    p \in {q \in (1..Len(DerivableAlerts)) \X (1..Len(DerivableAlerts)) :
                             q[1] < q[2]}}

\* api.js builds every alert with the id `${type}-${baseSymbol}-${now.getTime()}`
\* and with read: false.
alertOf(entry, t) ==
    [id |-> <<entry[1], entry[2], t>>, category |-> entry[1], symbol |-> entry[2],
     read |-> FALSE]

\* fetchAlerts, as the page sees it: the alerts of all three lists.
fetchAlertsAt(t) == [j \in 1..Len(derived) |-> alertOf(derived[j], t)]

\* markAlertAsRead(alertId): logs and resolves { success: true }; the alerts
\* it leaves behind are the alerts it found.
markAlertAsRead(alerts, alertId) == alerts

OfCategory(alerts, cat) == SelectSeq(alerts, LAMBDA a : a.category = cat)

shownCategory(filterType) ==
    IF filterType = FILTER_TYPES.MONITORING THEN "monitoring"
    ELSE IF filterType = FILTER_TYPES.BUY THEN "buy" ELSE "sell"

cardOf(alert) == [id |-> alert.id, category |-> alert.category, unread |-> ~alert.read]

\* renderAlerts: the container is emptied, then one card per alert of the
\* column the filter shows.
renderAlerts(alerts, filterType) ==
    LET shown == OfCategory(alerts, shownCategory(filterType))
    IN  [j \in 1..Len(shown) |-> cardOf(shown[j])]

\* updateUnreadCounters: alerts with !alert.read, per list.
updateUnreadCounters(alerts) ==
    [cat \in Categories |->
        Len(SelectSeq(OfCategory(alerts, cat), LAMBDA a : ~a.read))]

\* classList.remove('unread') on the first card carrying data-id = alertId.
removeUnread(cs, alertId) ==
    LET hits == {j \in 1..Len(cs) : cs[j].id = alertId}
    IN  IF hits = {} THEN cs
        ELSE LET first == CHOOSE j \in hits : \A k \in hits : j <= k
             IN  [cs EXCEPT ![first].unread = FALSE]

findAlert(alerts, alertId) ==
    LET hits == {j \in 1..Len(alerts) : alerts[j].id = alertId}
    IN  IF hits = {} THEN NoId
        ELSE alerts[CHOOSE j \in hits : \A k \in hits : j <= k].id

Tick ==
    /\ now < MaxClock
    /\ now' = now + 1
    /\ UNCHANGED <<alertVars, libVars, apiVars, uiPc, api, derived, currentFilter, cards,
                   badges, clicked, obtained, selectedAlert, pauseVars>>

\* initApp: fetchAlerts() is not awaited.  With a promise in hand renderAlerts
\* empties the container and throws on alerts.buy.map; the catch reports it.
InitApp ==
    /\ uiPc = "loading"
    /\ IF api = "lists"
       THEN /\ obtained' = fetchAlertsAt(now)
            /\ cards' = renderAlerts(obtained', currentFilter)
            /\ badges' = updateUnreadCounters(obtained')
            /\ uiPc' = "ready"
       ELSE /\ obtained' = <<>>
            /\ cards' = <<>>
            /\ uiPc' = "failed"
            /\ UNCHANGED badges
    /\ UNCHANGED <<nonUiVars, api, now, derived, currentFilter, clicked,
                   selectedAlert, pauseVars>>

\* refreshData once forceUpdatePrices has answered: the alerts are fetched,
\* rendered and counted, and lastUpdate is set.  With a promise in hand
\* renderAlerts empties the container and throws; the catch reports it.
RefreshData ==
    /\ refreshing
    /\ uiPc /= "marking"
    /\ refreshing' = FALSE
    /\ IF api = "lists"
       THEN /\ obtained' = fetchAlertsAt(now)
            /\ cards' = renderAlerts(obtained', currentFilter)
            /\ badges' = updateUnreadCounters(obtained')
            /\ lastUpdate' = Num(now)
       ELSE /\ obtained' = <<>>
            /\ cards' = <<>>
            /\ UNCHANGED <<badges, lastUpdate>>
    /\ UNCHANGED <<nonUiVars, uiPc, api, now, derived, currentFilter, clicked,
                   selectedAlert, visibility, ticking>>

\* updateActiveFilter: the buttons are wired by setupUIEvents at once.
UpdateActiveFilter ==
    /\ uiPc /= "marking"
    /\ \E filterType \in Filters :
        /\ currentFilter' = filterType
        /\ IF api = "lists"
           THEN /\ obtained' = fetchAlertsAt(now)
                /\ cards' = renderAlerts(obtained', filterType)
           ELSE /\ obtained' = <<>>
                /\ cards' = <<>>
    /\ UNCHANGED <<nonUiVars, uiPc, api, now, derived, badges, clicked,
                   selectedAlert, pauseVars>>

\* The click on a card: showAlertDetails(alertCard.dataset.id) calls
\* markAlertAsRead and leaves the rest to the promise's then.
ShowAlertDetails ==
    /\ uiPc = "ready"
    /\ \E j \in 1..Len(cards) : clicked' = cards[j].id
    /\ obtained' = markAlertAsRead(obtained, clicked')
    /\ uiPc' = "marking"
    /\ UNCHANGED <<nonUiVars, api, now, derived, currentFilter, cards, badges,
                   selectedAlert, pauseVars>>

\* The then of markAlertAsRead: the card loses its unread class, the alerts
\* are fetched again and the counters recomputed from them.
MarkedThen ==
    /\ uiPc = "marking"
    /\ cards' = removeUnread(cards, clicked)
    /\ obtained' = fetchAlertsAt(now)
    /\ badges' = updateUnreadCounters(obtained')
    /\ selectedAlert' = LET found == findAlert(obtained', clicked)
                        IN  IF found = NoId THEN selectedAlert ELSE found
    /\ uiPc' = "ready"
    /\ UNCHANGED <<nonUiVars, api, now, derived, currentFilter, clicked, pauseVars>>

\* The page's clock counts periods of the interval, 15 s each.
STALE_AFTER == 2    \* (new Date() - appState.lastUpdate) > 30000

\* The interval and the visibilitychange listener exist once initApp got
\* past its first rendering.
Registered == uiPc \in {"ready", "marking"}

isStale == lastUpdate = NULL \/ now - lastUpdate.v > STALE_AFTER

\* The refresh button, wired by setupUIEvents at once: refreshData() starts
\* and waits for forceUpdatePrices.
ClickRefresh ==
    /\ uiPc /= "marking"
    /\ ~refreshing
    /\ refreshing' = TRUE
    /\ UNCHANGED <<nonUiVars, uiPc, api, now, derived, currentFilter, cards, badges,
                   clicked, obtained, selectedAlert, visibility, lastUpdate, ticking>>

\* The tab goes to the background or comes back.  handleVisibilityChange
\* starts refreshData() when the page is visible and lastUpdate is missing or
\* more than 30 s old.
HandleVisibilityChange ==
    /\ uiPc /= "marking"
    /\ visibility' = IF visibility = "visible" THEN "hidden" ELSE "visible"
    /\ refreshing' = IF Registered /\ visibility' = "visible" /\ isStale
                     THEN TRUE ELSE refreshing
    /\ UNCHANGED <<nonUiVars, uiPc, api, now, derived, currentFilter, cards, badges,
                   clicked, obtained, selectedAlert, lastUpdate, ticking>>

\* The interval fires: when the page is visible the callback asks for the
\* prices and waits for them, else it does nothing.
IntervalFires ==
    /\ uiPc = "ready"
    /\ ~ticking
    /\ ticking' = (visibility = "visible")
    /\ UNCHANGED <<nonUiVars, uiPc, api, now, derived, currentFilter, cards, badges,
                   clicked, obtained, selectedAlert, visibility, lastUpdate, refreshing>>

\* The prices have come: the callback fetches the alerts, renders and counts
\* them and sets lastUpdate.
IntervalRenders ==
    /\ ticking
    /\ uiPc = "ready"
    /\ ticking' = FALSE
    /\ obtained' = fetchAlertsAt(now)
    /\ cards' = renderAlerts(obtained', currentFilter)
    /\ badges' = updateUnreadCounters(obtained')
    /\ lastUpdate' = Num(now)
    /\ UNCHANGED <<nonUiVars, uiPc, api, now, derived, currentFilter, clicked,
                   selectedAlert, visibility, refreshing>>

NextUI ==
    \/ Tick
    \/ InitApp
    \/ ClickRefresh
    \/ HandleVisibilityChange
    \/ IntervalFires
    \/ IntervalRenders
    \/ RefreshData
    \/ UpdateActiveFilter
    \/ ShowAlertDetails
    \/ MarkedThen

InitUI ==
    /\ symbols = <<>>
    /\ market = Empty
    /\ pc = "idle"
    /\ path = "none"
    /\ i = 1
    /\ pending = {}
    /\ analysis = Empty
    /\ results = Empty
    /\ allAlerts = EmptyAlerts
    /\ call = NoCall
    /\ ret = NoReturn
    /\ api \in {"lists", "promise"}
    /\ derived \in DerivedChoices
    /\ PageNotLoaded
    /\ protocol = "https:"
    /\ hasRSI = TRUE
    /\ ApiLoaded

SpecUI == InitUI /\ [][NextUI]_vars

CardUnread(alertId) == \E j \in 1..Len(cards) : cards[j].id = alertId /\ cards[j].unread

C18_ClickLeavesUnread ==
    [][(uiPc = "marking" /\ uiPc' = "ready")
        => /\ \A j \in 1..Len(obtained') : ~obtained'[j].read
           /\ badges' = badges]_vars

--------------------------------------------------------------------------
\* api.js: where the prices and the candles behind an alert come from.
\* Time is counted in minutes.

PRICE_EXPIRATION == 2   \* priceCache.expirationTime, 2 * 60 * 1000 ms
HISTORY_TTL == 5        \* historicalDataCache entries, 5 * 60 * 1000 ms
SIMULATED_CANDLES == 100    \* generateSimulatedHistoricalData pushes 100 candles

Monitored == {MONITORED_COINS[j] : j \in 1..Len(MONITORED_COINS)}
Providers == <<"binance", "cryptocompare", "coingecko">>

\* The lists of prices a provider may answer with: any part of the monitored
\* coins, none of them included.
PriceLists == {<<>>, <<"BTC/USDT">>, <<"ETH/USDT">>, MONITORED_COINS}

\* What a request can come to: no usable answer, or the symbols quoted.
Failed == [ok |-> FALSE, symbols |-> <<>>]
Answers == {Failed} \cup {[ok |-> TRUE, symbols |-> l] : l \in PriceLists}

\* Lengths of the klines answer, below and above the 14 fetchAlerts asks for.
KlineCounts == {10, 100}
\* RSI readings: oversold, neutral, overbought.
RsiReadings == {10, 50, 85}

pricesFrom(source, list) == [source |-> source, symbols |-> list]

\* fetchSimulatedRealPrices: the eight literal prices of the function.
fetchSimulatedRealPrices == pricesFrom("simulated", MONITORED_COINS)

cacheIsFresh ==
    /\ priceCache.prices /= NoPrices
    /\ priceCache.lastUpdate /= NULL
    /\ now - priceCache.lastUpdate.v < PRICE_EXPIRATION

\* return of fetchCurrentPrices; fetchAlerts goes on with its loop.
ReturnPrices(c, p) ==
    /\ currentPrices' = p
    /\ apiPc' = IF c = "fetchAlerts" THEN "analysing" ELSE "returned"
    /\ idx' = 1

\* priceCache.prices = p; priceCache.lastUpdate = new Date(); return p
StoreAndReturn(p) ==
    /\ priceCache' = [prices |-> p, lastUpdate |-> Num(now)]
    /\ ReturnPrices(caller, p)

\* A call of fetchCurrentPrices, forceUpdatePrices or fetchAlerts, up to the
\* first request: forceUpdatePrices clears lastUpdate, then the fresh cache
\* is returned, or the simulated prices when the page is a local file.
CallApi ==
    /\ apiPc \in {"idle", "returned", "alerts"}
    /\ \E c \in {"fetchCurrentPrices", "forceUpdatePrices", "fetchAlerts"} :
        /\ caller' = c
        /\ queried' = <<>>
        /\ fetched' = <<>>
        /\ IF c /= "forceUpdatePrices" /\ cacheIsFresh
           THEN /\ ReturnPrices(c, priceCache.prices)
                /\ UNCHANGED priceCache
           ELSE /\ priceCache' = IF c = "forceUpdatePrices"
                                 THEN [priceCache EXCEPT !.lastUpdate = NULL]
                                 ELSE priceCache
                /\ IF protocol = "file:"
                   THEN ReturnPrices(c, fetchSimulatedRealPrices)
                   ELSE /\ apiPc' = "binance"
                        /\ currentPrices' = NoPrices
                        /\ idx' = 1
    /\ UNCHANGED <<alertVars, libVars, uiVars, protocol, hasRSI, historicalDataCache>>

\* fetchPricesFromBinance: one request per coin; the valid results, or null
\* when there is none.  Accepted when binancePrices.length > 0.
FetchPricesFromBinance ==
    /\ apiPc = "binance"
    /\ \E answer \in Answers :
        /\ queried' = Append(queried, [provider |-> "binance",
                                       ok |-> answer.ok /\ answer.symbols /= <<>>])
        /\ IF answer.ok /\ answer.symbols /= <<>>
           THEN StoreAndReturn(pricesFrom("binance", answer.symbols))
           ELSE /\ apiPc' = "cryptocompare"
                /\ UNCHANGED <<priceCache, currentPrices, idx>>
    /\ UNCHANGED <<alertVars, libVars, uiVars, protocol, hasRSI, historicalDataCache,
                   caller, fetched>>

\* CryptoCompare pricemulti: when response.ok, the entries of the body are
\* returned as they are.
FetchPricesFromCryptoCompare ==
    /\ apiPc = "cryptocompare"
    /\ \E answer \in Answers :
        /\ queried' = Append(queried, [provider |-> "cryptocompare", ok |-> answer.ok])
        /\ IF answer.ok
           THEN StoreAndReturn(pricesFrom("cryptocompare", answer.symbols))
           ELSE /\ apiPc' = "coingecko"
                /\ UNCHANGED <<priceCache, currentPrices, idx>>
    /\ UNCHANGED <<alertVars, libVars, uiVars, protocol, hasRSI, historicalDataCache,
                   caller, fetched>>

\* fetchPricesFromCoinGecko, accepted when coinGeckoPrices.length > 0; when it
\* fails too: the cache even if expired, else the simulated prices, cached.
FetchPricesFromCoinGecko ==
    /\ apiPc = "coingecko"
    /\ \E answer \in Answers :
        /\ queried' = Append(queried, [provider |-> "coingecko",
                                       ok |-> answer.ok /\ answer.symbols /= <<>>])
        /\ IF answer.ok /\ answer.symbols /= <<>>
           THEN StoreAndReturn(pricesFrom("coingecko", answer.symbols))
           ELSE IF priceCache.prices /= NoPrices
                THEN /\ ReturnPrices(caller, priceCache.prices)
                     /\ UNCHANGED priceCache
                ELSE StoreAndReturn(fetchSimulatedRealPrices)
    /\ UNCHANGED <<alertVars, libVars, uiVars, protocol, hasRSI, historicalDataCache,
                   caller, fetched>>

historyIsFresh(symbol) ==
    /\ historicalDataCache[symbol] /= NoData
    /\ now - historicalDataCache[symbol].timestamp < HISTORY_TTL

candlesFrom(source, n) == [source |-> source, n |-> n, timestamp |-> now]

\* generateSimulatedHistoricalData: 100 candles drawn with Math.random().
generateSimulatedHistoricalData == candlesFrom("simulated", SIMULATED_CANDLES)

\* getHistoricalData: the fresh cache entry; else the klines of Binance,
\* cached; when the request fails the expired entry, else simulated candles.
getHistoricalData(symbol, answer) ==
    IF historyIsFresh(symbol) THEN historicalDataCache[symbol]
    ELSE IF answer.ok THEN candlesFrom("binance", answer.n)
    ELSE IF historicalDataCache[symbol] /= NoData THEN historicalDataCache[symbol]
    ELSE generateSimulatedHistoricalData

KlineAnswers == {[ok |-> FALSE, n |-> 0]} \cup {[ok |-> TRUE, n |-> n] : n \in KlineCounts}

\* The type of the alert fetchAlerts pushes for an RSI; between the two
\* limits the other indicators decide whether a monitoring alert is pushed.
alertTypes(rsi) ==
    IF isOversold(Num(rsi * Scale)) THEN {"BUY"}
    ELSE IF isOverbought(Num(rsi * Scale)) THEN {"SELL"}
    ELSE {"MONITORING", "none"}

\* One turn of the loop of fetchAlerts over currentPrices.  The RSI is
\* window.calculateRSI(closes, 14) when that is a function, else
\* Math.floor(Math.random() * 100).
AnalysePrice ==
    /\ apiPc = "analysing"
    /\ idx <= Len(currentPrices.symbols)
    /\ LET symbol == currentPrices.symbols[idx] IN
       \E answer \in KlineAnswers, rsi \in RsiReadings :
        LET historicalData == getHistoricalData(symbol, answer) IN
        /\ historicalDataCache' =
              IF ~historyIsFresh(symbol) /\ answer.ok
              THEN [historicalDataCache EXCEPT ![symbol] = historicalData]
              ELSE historicalDataCache
        /\ IF historicalData.n < FETCH_MIN_CANDLES
           THEN UNCHANGED fetched
           ELSE \E type \in alertTypes(rsi) :
                  fetched' = fetched \o PushIf(type /= "none",
                      [type |-> type, symbol |-> symbol,
                       prices |-> currentPrices.source,
                       candles |-> historicalData.source,
                       rsi |-> IF hasRSI THEN "calculateRSI" ELSE "Math.random"])
    /\ idx' = idx + 1
    /\ UNCHANGED <<alertVars, libVars, uiVars, protocol, hasRSI, priceCache, apiPc,
                   caller, queried, currentPrices>>

\* return alerts
ReturnAlerts ==
    /\ apiPc = "analysing"
    /\ idx > Len(currentPrices.symbols)
    /\ apiPc' = "alerts"
    /\ UNCHANGED <<alertVars, libVars, uiVars, protocol, hasRSI, priceCache,
                   historicalDataCache, caller, queried, currentPrices, idx, fetched>>

NextApi ==
    \/ Tick
    \/ CallApi
    \/ FetchPricesFromBinance
    \/ FetchPricesFromCryptoCompare
    \/ FetchPricesFromCoinGecko
    \/ AnalysePrice
    \/ ReturnAlerts

InitApi ==
    /\ symbols = <<>>
    /\ market = Empty
    /\ pc = "idle"
    /\ path = "none"
    /\ i = 1
    /\ pending = {}
    /\ analysis = Empty
    /\ results = Empty
    /\ allAlerts = EmptyAlerts
    /\ call = NoCall
    /\ ret = NoReturn
    /\ api = "lists"
    /\ derived = <<>>
    /\ PageNotLoaded
    /\ protocol \in {"https:", "file:"}
    /\ hasRSI \in BOOLEAN
    /\ ApiLoaded

SpecApi == InitApi /\ [][NextApi]_vars

RealPrices == {"binance", "cryptocompare", "coingecko"}

\* C19: every alert fetchAlerts returns rests on prices of a provider, on
\* candles of Binance and on an RSI calculated from them, whatever requests
\* fail.
C19_AlertsFromRealData ==
    apiPc = "alerts" =>
        \A j \in 1..Len(fetched) :
            /\ fetched[j].prices \in RealPrices
            /\ fetched[j].candles = "binance"
            /\ fetched[j].rsi = "calculateRSI"

Returned20 == apiPc \in {"returned", "analysing", "alerts"}
AllFailed == Len(queried) = Len(Providers) /\ \A j \in 1..Len(queried) : ~queried[j].ok

\* The providers are asked in the order Binance, CryptoCompare, CoinGecko,
\* and one is asked only when all before it gave nothing.
AskedInOrder ==
    /\ Len(queried) <= Len(Providers)
    /\ \A j \in 1..Len(queried) : queried[j].provider = Providers[j]
    /\ \A j, k \in 1..Len(queried) : j < k => ~queried[j].ok

\* The step that ends a call after all three providers failed returns the
\* cached prices if there are any, else the simulated prices.
FallbackStep ==
    (apiPc = "coingecko" /\ Returned20' /\ AllFailed')
        => currentPrices' = IF priceCache.prices /= NoPrices THEN priceCache.prices
                            ELSE fetchSimulatedRealPrices

\* C20: providers asked in order, each only after the earlier ones failed;
\* after all failed the cached prices, simulated ones only without a cache;
\* and every call returns a list that is not empty.
C20_ProviderFallback ==
    [][/\ AskedInOrder'
       /\ FallbackStep
       /\ (~Returned20 /\ Returned20') => currentPrices'.symbols /= <<>>]_vars

\* What holds of the code: order and fallback as stated; the list returned
\* is empty only when it is, or was cached from, an answer of CryptoCompare.
C20_ProviderFallbackButEmptyAnswer ==
    [][/\ AskedInOrder'
       /\ FallbackStep
       /\ (~Returned20 /\ Returned20' /\ currentPrices'.symbols = <<>>)
            => currentPrices'.source = "cryptocompare"]_vars

\* The step in which the interval callback fetches and renders the alerts.
TickRenders == ticking /\ ~ticking'
BecomesVisible == visibility = "hidden" /\ visibility' = "visible"

\* C21: no periodic tick fetches or renders while the page is hidden, and
\* when the page becomes visible with no update in the last 30 seconds a
\* refresh is started at once (the first loading aside, which renders by
\* itself).
C21_PausedWhileHidden ==
    [][/\ TickRenders => visibility = "visible"
       /\ (~ticking /\ ticking') => visibility = "visible"
       /\ (BecomesVisible /\ isStale /\ uiPc /= "loading") => refreshing']_vars

\* What holds of the page: a tick that fires while the page is hidden starts
\* nothing, and a page whose initApp got through starts a refresh when it
\* becomes visible with lastUpdate missing or more than 30 s old.
C21_HiddenTickStartsNothing ==
    [][/\ (~ticking /\ ticking') => visibility = "visible"
       /\ (BecomesVisible /\ isStale /\ Registered) => refreshing']_vars

--------------------------------------------------------------------------
LongEnoughForADX == Called("calculateADX") /\ Len(call.prices) >= 2 * call.period

\* Nulls first, values after, as many entries as candles.
PaddedTo(arr, n) ==
    /\ Len(arr) = n
    /\ \A j, k \in 1..Len(arr) : (j < k /\ arr[k].k = "null") => arr[j].k = "null"

\* C22: for at least 2 x period candles, adx, plusDI and minusDI each have
\* the length of the input, nulls leading.
C22_AdxArraysAligned ==
    LongEnoughForADX =>
        /\ PaddedTo(ret.v.adx, Len(call.prices))
        /\ PaddedTo(ret.v.plusDI, Len(call.prices))
        /\ PaddedTo(ret.v.minusDI, Len(call.prices))

\* What holds: the adx array alone is padded to the length of the input.
C22_AdxArrayAligned ==
    LongEnoughForADX => PaddedTo(ret.v.adx, Len(call.prices))

--------------------------------------------------------------------------
SomeStrongly(patterns) ==
    \E j \in 1..Len(patterns) : includesStrongly(patterns[j].significance)

\* The first recent pattern lies on one of the last two of `count` candles.
FirstOnLastTwo(patterns, count) ==
    patterns /= <<>> /\ patterns[1].position >= count - 2

PatternAlerts(m) == {j \in 1..Len(m) : m[j].monitoring_type = "Padrao Grafico"}

\* C23: a "Padrão Gráfico" alert is emitted only for a strongly significant
\* recent pattern or a first recent pattern on one of the last two candles of
\* the analysed series, with confidence HIGH only for a strongly significant
\* one; a pattern on the third-to-last candle alone fires nothing.
C23_PatternAlertOnlyWhenRecent ==
    \A sym \in Symbols :
        (IsTech /\ HasSnapshot(sym)) =>
            LET m == Emitted(sym).monitoring
                a == analysis[sym]
            IN \A j \in PatternAlerts(m) :
                /\ SomeStrongly(a.patterns) \/ FirstOnLastTwo(a.patterns, market[sym].n)
                /\ m[j].confidence = "HIGH" => SomeStrongly(a.patterns)

\* What holds: the position is compared with the length of the snapshot's
\* candles, the last 10 of the series.
C23_PatternAlertBySnapshotLength ==
    \A sym \in Symbols :
        (IsTech /\ HasSnapshot(sym)) =>
            LET m == Emitted(sym).monitoring
                a == analysis[sym]
            IN /\ PatternAlerts(m) /= {}
                    <=> (a.patterns /= <<>>
                         /\ (SomeStrongly(a.patterns)
                             \/ FirstOnLastTwo(a.patterns, Min(market[sym].n, RECENT_CANDLES))))
               /\ \A j \in PatternAlerts(m) :
                    m[j].confidence = "HIGH" => SomeStrongly(a.patterns)

--------------------------------------------------------------------------
\* getHistoricalData step by step, in its two copies: api.js falls back to
\* simulated candles, timeframes_module.js to getHistoricalDataAlternative
\* (CryptoCompare), which caches what it gets and returns [] when it fails.
\* Time is counted in minutes.

Modules == {"api.js", "timeframes_module.js"}
HistoryCalls == {<<"BTC/USDT", "1h">>, <<"BTC/USDT", "4h">>, <<"ETH/USDT", "1h">>}

\* symbol.replace('/', '')
normalizedSymbol(symbol) ==
    CASE symbol = "BTC/USDT" -> "BTCUSDT"
      [] symbol = "ETH/USDT" -> "ETHUSDT"
      [] OTHER -> symbol

\* Variant: the timeframe left out of the key.
cacheKeyBySymbol(symbol, timeframe) == <<normalizedSymbol(symbol), "1h">>
\* `${normalizedSymbol}_${timeframe}`
cacheKey(symbol, timeframe) == <<normalizedSymbol(symbol), timeframe>>

HistoryKeys == {cacheKey(c[1], c[2]) : c \in HistoryCalls}

\* The candles a provider answers with: those of the pair and interval asked.
klinesOf(source, symbol, timeframe) ==
    [of |-> <<normalizedSymbol(symbol), timeframe>>, source |-> source]

cacheEntry(data, timestamp) == [data |-> data, timestamp |-> timestamp]
NoEntry == [data |-> <<>>, timestamp |-> 0]
NoCandles == [of |-> <<>>, source |-> "none"]

thisKey == cacheKey(call.symbol, call.timeframe)

\* The call up to its first await: the entry younger than the TTL is
\* returned, else the klines of Binance are requested.
CallGetHistoricalData ==
    /\ apiPc \in {"idle", "returned"}
    /\ \E m \in Modules, c \in HistoryCalls :
        LET key == cacheKey(c[1], c[2]) IN
        /\ caller = "none" \/ caller = m
        /\ caller' = m
        /\ call' = [fn |-> "getHistoricalData", symbol |-> c[1], timeframe |-> c[2],
                    now |-> now]
        /\ queried' = <<>>
        /\ IF historicalDataCache[key] /= NoEntry
              /\ now - historicalDataCache[key].timestamp < HISTORY_TTL
           THEN /\ ret' = Returned(historicalDataCache[key].data)
                /\ apiPc' = "returned"
           ELSE /\ ret' = NoReturn
                /\ apiPc' = "klines"
    /\ UNCHANGED <<alertVars, uiVars, protocol, hasRSI, priceCache, historicalDataCache,
                   currentPrices, idx, fetched>>

\* Binance answers.  A good answer is cached under the key with the time the
\* call began; after a bad one the entry, even expired, is returned, and
\* without an entry the fallback of the module is taken.
KlinesAnswer ==
    /\ apiPc = "klines"
    /\ \E ok \in BOOLEAN :
        /\ queried' = Append(queried, [provider |-> "binance", ok |-> ok])
        /\ IF ok
           THEN LET candles == klinesOf("binance", call.symbol, call.timeframe) IN
                /\ historicalDataCache' =
                      [historicalDataCache EXCEPT ![thisKey] = cacheEntry(candles, call.now)]
                /\ ret' = Returned(candles)
                /\ apiPc' = "returned"
           ELSE /\ UNCHANGED historicalDataCache
                /\ IF historicalDataCache[thisKey] /= NoEntry
                   THEN /\ ret' = Returned(historicalDataCache[thisKey].data)
                        /\ apiPc' = "returned"
                   ELSE IF caller = "api.js"
                   THEN /\ ret' = Returned(klinesOf("simulated", call.symbol, call.timeframe))
                        /\ apiPc' = "returned"
                   ELSE /\ ret' = NoReturn
                        /\ apiPc' = "alternative"
    /\ UNCHANGED <<alertVars, uiVars, call, protocol, hasRSI, priceCache, caller,
                   currentPrices, idx, fetched>>

\* getHistoricalDataAlternative: CryptoCompare answers.
AlternativeAnswer ==
    /\ apiPc = "alternative"
    /\ \E ok \in BOOLEAN :
        /\ queried' = Append(queried, [provider |-> "cryptocompare", ok |-> ok])
        /\ IF ok
           THEN LET candles == klinesOf("cryptocompare", call.symbol, call.timeframe) IN
                /\ historicalDataCache' =
                      [historicalDataCache EXCEPT ![thisKey] = cacheEntry(candles, now)]
                /\ ret' = Returned(candles)
           ELSE /\ UNCHANGED historicalDataCache
                /\ ret' = Returned(NoCandles)
    /\ apiPc' = "returned"
    /\ UNCHANGED <<alertVars, uiVars, call, protocol, hasRSI, priceCache, caller,
                   currentPrices, idx, fetched>>

NextHistory ==
    \/ Tick
    \/ CallGetHistoricalData
    \/ KlinesAnswer
    \/ AlternativeAnswer

InitHistory ==
    /\ symbols = <<>>
    /\ market = Empty
    /\ pc = "idle"
    /\ path = "none"
    /\ i = 1
    /\ pending = {}
    /\ analysis = Empty
    /\ results = Empty
    /\ allAlerts = EmptyAlerts
    /\ call = NoCall
    /\ ret = NoReturn
    /\ api = "lists"
    /\ derived = <<>>
    /\ PageNotLoaded
    /\ protocol = "https:"
    /\ hasRSI = TRUE
    /\ priceCache = [prices |-> NoPrices, lastUpdate |-> NULL]
    /\ historicalDataCache = [key \in HistoryKeys |-> NoEntry]
    /\ apiPc = "idle"
    /\ caller = "none"
    /\ queried = <<>>
    /\ currentPrices = NoPrices
    /\ idx = 1
    /\ fetched = <<>>

SpecHistory == InitHistory /\ [][NextHistory]_vars

\* The entry of the key the next state's call asks for, as it is now.
\* The entry under the key of the pair and interval asked; no entry where
\* the cache has no such key.
EntryAsked ==
    LET key == <<normalizedSymbol(call'.symbol), call'.timeframe>>
    IN IF key \in DOMAIN historicalDataCache THEN historicalDataCache[key] ELSE NoEntry
YoungEntry(e) == e /= NoEntry /\ now - e.timestamp < HISTORY_TTL
CallBegins == apiPc \in {"idle", "returned"} /\ now' = now
RequestFails ==
    /\ Len(queried') = Len(queried) + 1
    /\ ~queried'[Len(queried')].ok

\* C24: a series comes from the cache only under the key of the call; it is
\* returned without a request iff an entry younger than 5 minutes exists;
\* after a failed request an existing entry, expired or not, is returned;
\* and a failed request leaves the cache as it is.
C24_HistoryCache ==
    [][/\ CallBegins =>
            /\ YoungEntry(EntryAsked) <=> (apiPc' = "returned" /\ queried' = <<>>)
            /\ YoungEntry(EntryAsked) => ret' = Returned(EntryAsked.data)
            /\ ~YoungEntry(EntryAsked) => apiPc' = "klines"
       /\ (apiPc' = "returned" /\ ret'.v /= NoCandles) =>
            ret'.v.of = <<normalizedSymbol(call'.symbol), call'.timeframe>>
       /\ (apiPc = "klines" /\ RequestFails /\ historicalDataCache[thisKey] /= NoEntry) =>
            ret' = Returned(historicalDataCache[thisKey].data)
       /\ RequestFails => historicalDataCache' = historicalDataCache]_vars

\* An expired entry was returned after Binance failed, another key's entry
\* being in the cache as well.
C24_Witness ==
    /\ apiPc = "returned"
    /\ call.fn = "getHistoricalData"
    /\ queried = <<[provider |-> "binance", ok |-> FALSE]>>
    /\ historicalDataCache[thisKey] /= NoEntry
    /\ now - historicalDataCache[thisKey].timestamp >= HISTORY_TTL
    /\ ret = Returned(historicalDataCache[thisKey].data)
    /\ \E key \in HistoryKeys : key /= thisKey /\ historicalDataCache[key] /= NoEntry

--------------------------------------------------------------------------
\* The computations that have begun: in flight or settled.
Begun == pending \cup DOMAIN results

\* What the run must return for its input, whatever the order of completion.
ExpectedResults ==
    [sym \in Symbols |->
        LET j == CHOOSE k \in 1..Len(symbols) : symbols[k] = sym
        IN Stamped(generateTechnicalAlerts(sym, calculateAllIndicators(sym, market[sym])),
                   "tech", batchMillisecond(((j - 1) \div batchSize) * batchSize + 1))]

\* C25: at most 5 computations in flight; none of a later batch begun while
\* one of the batch before is in flight; the result holds the alerts of each
\* symbol once, in an order that the order of completion does not change.
C25_BatchesOfFive ==
    IsTech =>
        /\ Cardinality(pending) <= 5
        /\ pending /= {} =>
              \A j \in 1..Len(symbols) : symbols[j] \in Begun => j <= i + 4
        /\ \A j \in 1..Len(symbols) :
              symbols[j] \in pending => (j >= i /\ symbols[j] \notin DOMAIN results)
        /\ pc = "done" =>
              /\ allAlerts = CombineResults(EmptyAlerts, ExpectedResults, 1, Len(symbols))
              /\ \A kind \in {"buy", "sell", "monitoring"} :
                    \A sym \in Symbols :
                        OfSymbol(allAlerts[kind], sym) = ExpectedResults[sym][kind]

\* The second batch is in flight, the first one combined with buy and sell
\* alerts in it.
C25_Witness ==
    /\ IsTech /\ pc = "batch"
    /\ i = 6
    /\ pending = {symbols[6]}
    /\ allAlerts.buy /= <<>>
    /\ allAlerts.sell /= <<>>

--------------------------------------------------------------------------
SignificancesAt(patterns, position) ==
    {patterns[j].significance : j \in {k \in 1..Len(patterns) : patterns[k].position = position}}

\* C26: for at least 3 candles every pattern has a position in [2, n-1] and
\* a significance among bullish, bearish and neutral, and no position has a
\* bullish and a bearish pattern.
C26_PatternsWellFormed ==
    (Called("identifyCandlePatterns") /\ Len(call.prices) >= 3) =>
        /\ \A j \in 1..Len(ret.v) :
              /\ ret.v[j].position >= 2
              /\ ret.v[j].position <= Len(call.prices) - 1
              /\ ret.v[j].significance \in {"bullish", "bearish", "neutral"}
        /\ \A position \in 0..Len(call.prices) :
              ~({"bullish", "bearish"} \subseteq SignificancesAt(ret.v, position))

\* A Doji shares the last position with a Martelo, after a bearish pattern on
\* the candle before.
C26_Witness ==
    /\ Called("identifyCandlePatterns")
    /\ Len(call.prices) = 4
    /\ SignificancesAt(ret.v, 3) = {"neutral", "bullish"}
    /\ "bearish" \in SignificancesAt(ret.v, 2)

--------------------------------------------------------------------------
\* C27: in generateTechnicalAlerts, on candles with 0 < low <= close <= high,
\* every BUY alert has stopLoss < price < target and every SELL alert
\* target < price < stopLoss, the stop loss being 0.99 x the lowest low (BUY)
\* or 1.01 x the highest high (SELL) of the last 5 candles.
C27_StopLossAndTarget ==
    IsTech =>
        /\ \A a \in EmittedBuy :
              /\ a.stopLoss.v = minOf(Lows(market[a.symbol].tail)) * 99
              /\ a.stopLoss.v < a.price.v * StopDen
              /\ a.price.v * TargetDen < a.target.v
        /\ \A a \in EmittedSell :
              /\ a.stopLoss.v = maxOf(Highs(market[a.symbol].tail)) * 101
              /\ a.target.v < a.price.v * TargetDen
              /\ a.price.v * StopDen < a.stopLoss.v

\* A BUY alert at price 100 whose stop loss, 59.4, comes from the second of
\* the last five candles, the lows of the first and fourth being above the
\* price.
C27_Witness ==
    /\ IsTech
    /\ \E a \in EmittedBuy :
          /\ a.price = Num(100)
          /\ market[a.symbol].tail = UnevenTail(100)
          /\ a.stopLoss = Num(60 * 99)

--------------------------------------------------------------------------
\* C28: a BUY recommendation carries the MACD clause ('MACD mostra momentum
\* positivo') only if the alert's indicators.macd is 'BULLISH', and a SELL
\* recommendation carries it ('momentum negativo') only if it is 'BEARISH'.
C28_MacdClauseMatchesLabel ==
    /\ \A a \in EmittedBuy : "MACD" \in a.recommendation => a.macd = "BULLISH"
    /\ \A a \in EmittedSell : "MACD" \in a.recommendation => a.macd = "BEARISH"

\* What does hold: the SELL half, and the BUY half with a clause whenever the
\* label is 'BULLISH'.
C28_SellClauseMatchesLabel ==
    /\ \A a \in EmittedSell : "MACD" \in a.recommendation <=> a.macd = "BEARISH"
    /\ \A a \in EmittedBuy : a.macd = "BULLISH" => "MACD" \in a.recommendation

--------------------------------------------------------------------------
\* Two groups of the result lie within the threshold of groupLevels of each
\* other, measured as the loop measures a level against an earlier group.
NearDuplicates(groups) ==
    \E g \in 1..Len(groups) : \E h \in (g + 1)..Len(groups) :
        isNearGroup(groups[h], groups[g])

\* C29: no two groups returned by groupLevels lie within 0.5% of each other.
C29_NoNearDuplicateGroups ==
    Called("groupLevels") => ~NearDuplicates(ret.v)

\* What does hold: the same while no point has joined a group, every group
\* still carrying the price it was opened with.
C29_NoNearDuplicateNewGroups ==
    (Called("groupLevels") /\ \A g \in 1..Len(ret.v) : ret.v[g].strength = 1)
        => ~NearDuplicates(ret.v)

--------------------------------------------------------------------------
\* Runs of generateAlertsForMultipleSymbols over pairwise distinct symbols,
\* some of them pairs of the same coin.
IdSymbolLists ==
    {<<"BTC/USDT", "BTC/BRL">>,
     <<"BTC/USDT", "ETH/USDT", "BTC/BRL">>,
     <<"BTC/USDT", "ETH/USDT", "SOL/USDT", "BNB/USDT", "AVAX/USDT", "BTC/EUR">>}

InitIds == \E syms \in IdSymbolLists : Start(syms, BatchData)

NextIds ==
    \/ StartTech
    \/ \E sym \in pending : GenerateTechnicalAlerts(sym)
    \/ CombineBatch

SpecIds == InitIds /\ [][NextIds]_vars

AllOf(alerts) == alerts.buy \o alerts.sell \o alerts.monitoring

DistinctIds(list) ==
    \A j \in 1..Len(list) : \A k \in 1..Len(list) :
        list[j].id = list[k].id => j = k

\* C30: the alerts of one result, for pairwise distinct symbols, have
\* pairwise distinct ids, also when created within the same millisecond.
C30_DistinctIds ==
    pc = "done" => DistinctIds(AllOf(allAlerts))

\* What does hold: the ids are distinct when no two symbols of a batch are
\* pairs of the same coin.
C30_DistinctIdsOfDistinctCoins ==
    (/\ pc = "done"
     /\ \A j \in 1..Len(symbols) : \A k \in 1..Len(symbols) :
           (/\ j /= k
            /\ (j - 1) \div batchSize = (k - 1) \div batchSize)
               => baseSymbol(symbols[j]) /= baseSymbol(symbols[k]))
        => DistinctIds(AllOf(allAlerts))

============================================================================
